---- MODULE Spec2Model ----
(***************************************************************************)
(* Touch-driven horizontal carousel: the three implementations of the      *)
(* repository as one state machine.                                        *)
(*   variant "slider"  : src/slider.js          (spring boundary)          *)
(*   variant "part"    : src/unnamed/part_000    (pillow boundary)         *)
(*   variant "touch"   : src/TouchSlider.js      (per-frame physics)       *)
(*                                                                         *)
(* Numbers.  JavaScript numbers are modelled in fixed point: track offsets *)
(* are integers in 1/Scale px, velocities in 1/Scale px per ms (slider,    *)
(* part) or per frame (touch); every product with a decimal coefficient is *)
(* rounded toward zero.  Touch coordinates and slide widths are whole px.  *)
(*                                                                         *)
(* Time.  Date.now() is not stored.  Every timestamp field t of the code   *)
(* is kept as the elapsed time now - t, and Elapse(m, d) lets d ms pass.   *)
(* An elapsed time saturates where the code stops distinguishing values:   *)
(* min(now - lastTime, 60), min(elapsed / duration, 1), and the sample     *)
(* window of the velocity history (differences between samples are kept).  *)
(***************************************************************************)
EXTENDS Integers, Sequences, FiniteSets, TLC

VARIABLES
    variant,    \* which source file the instance runs
    options,    \* this.options
    dom,        \* host geometry: container width, slides, padding
    m,          \* the instance: this.state, cached geometry, pending frame callbacks
    finger,     \* environment: a finger is on the screen (touch session open)
    op,         \* the last event delivered to the instance
    count,      \* how many touch sessions, touchmoves and resizes the run has had
    limit,      \* how many of each the run may have
    interval,   \* environment: ms between two display frames
    slideIndex, \* history: the index of the last slideChange, 0 after construction
    env,        \* environment: the elements the page has, and the geometries, finger
                \* positions and release delays a run may meet
    instance    \* what new left behind: how the constructor ended, whether the caller
                \* holds the object, the members assigned, the listeners attached

vars ==
    <<variant, options, dom, m, finger, op, count, limit, interval, slideIndex, env, instance>>

-----------------------------------------------------------------------------
(* Bounds of the model *)

\* touch sessions of a run, touchmove events of a run, resize events of a run
MaxTouches == 1
MaxMoves == 2
MaxResizes == 1

\* subscriptions one event holds at a time
MaxHandlers == 2

\* ms between two display frames: a 60 Hz display, and a page that renders at 28 Hz
FrameGap == 16
SlowFrameGap == 36

\* options.friction of the runs that mix touches and resizes, in 1/100: a short inertia
ShortFriction == 50

-----------------------------------------------------------------------------
(* Arithmetic *)

Scale == 10 * 10 * 10

Abs(x) == IF x < 0 THEN -x ELSE x

Sign(x) == IF x > 0 THEN 1 ELSE IF x < 0 THEN -1 ELSE 0

Min(a, b) == IF a < b THEN a ELSE b

Max(a, b) == IF a > b THEN a ELSE b

\* a / b rounded toward zero
Div(a, b) == IF a >= 0 THEN a \div b ELSE -((-a) \div b)

\* x * (num / den) for a decimal coefficient num / den
Mul(x, num, den) == Div(x * num, den)

RECURSIVE SqrtIter(_, _, _)
SqrtIter(n, lo, hi) ==
    IF lo >= hi THEN lo
    ELSE LET mid == (lo + hi + 1) \div 2
         IN  IF mid * mid <= n THEN SqrtIter(n, mid, hi) ELSE SqrtIter(n, lo, mid - 1)

\* floor of the square root of n
ISqrt(n) == SqrtIter(n, 0, Min(n, 46340))

\* Math.sqrt on a fixed-point value (large values lose two digits to stay in range)
FSqrt(x) == IF x < 2000000 THEN ISqrt(x * Scale) ELSE ISqrt(x \div 10) * 100

\* Math.pow(x, 0.75) on a fixed-point value: the square root of x * sqrt(x)
Pow075(x) ==
    FSqrt(IF x < 100000 THEN Div(x * FSqrt(x), Scale) ELSE Div(Div(x, 100) * FSqrt(x), 10))

\* x^5 on a fixed-point value
FPow5(x) == Div(Div(Div(Div(x * x, Scale) * x, Scale) * x, Scale) * x, Scale)

RECURSIVE Root5Iter(_, _, _)
Root5Iter(n, lo, hi) ==
    IF lo >= hi THEN lo
    ELSE LET mid == (lo + hi + 1) \div 2
         IN  IF FPow5(mid) <= n THEN Root5Iter(n, mid, hi) ELSE Root5Iter(n, lo, mid - 1)

\* Math.pow(x, 0.7) on a fixed-point value: sqrt(x) times the fifth root of x
Pow07(x) == Div(FSqrt(x) * Root5Iter(x, 0, 5 * Scale), Scale)

Last(s) == s[Len(s)]

\* NaN, which is also what arithmetic makes of undefined: an integer no offset reaches
NaN == -(2 ^ 30)

IsNaN(x) == x = NaN

\* a + b, a > b and a < b of JavaScript: NaN spreads through the sum and fails every
\* comparison
Add(a, b) == IF IsNaN(a) \/ IsNaN(b) THEN NaN ELSE a + b

Gt(a, b) == ~IsNaN(a) /\ ~IsNaN(b) /\ a > b

Lt(a, b) == ~IsNaN(a) /\ ~IsNaN(b) /\ a < b

\* F of the value of x: x is evaluated once, as a local constant of the code is
Once(x, F(_)) == CHOOSE r \in {F(v) : v \in {x}} : TRUE

RECURSIVE SumTo(_, _)
SumTo(f, n) == IF n = 0 THEN 0 ELSE f[n] + SumTo(f, n - 1)

-----------------------------------------------------------------------------
(* Host geometry (the DOM the instance measures) *)

Slide(w, mr) == [width |-> w, marginRight |-> mr]

\* equal slides that fill the container; slides of unequal width with margins; slides
\* that together are narrower than a padded container
Geoms ==
    << [containerWidth |-> 100, padding |-> 0,
        slides |-> <<Slide(100, 0), Slide(100, 0), Slide(100, 0)>>],
       [containerWidth |-> 120, padding |-> 0,
        slides |-> <<Slide(100, 20), Slide(80, 20), Slide(100, 0)>>],
       [containerWidth |-> 400, padding |-> 10,
        slides |-> <<Slide(100, 0), Slide(100, 0), Slide(100, 0)>>] >>

\* offsetLeft of slide i inside the track: the slides are laid out in a row
SlideLeft(d, i) == SumTo([j \in 1..(i - 1) |-> d.slides[j].width + d.slides[j].marginRight], i - 1)


-----------------------------------------------------------------------------
(* Program constants *)

defaultFriction == 95
defaultSpeed == 300
deadZoneSlider == 10
deadZonePart == 5
velocityWindow == 100
dtCap == 60
snapDuration == 500
boundsDuration == 700
projectionMs == 200

\* tan(65 deg) * 10^4: atan2(absY, absX) * 180 / PI < 65 iff absY / absX < tan(65 deg)
tanAngleThreshold == 21445

\* thresholds on the velocity, in 1/Scale px per ms
\* 0.05: release velocity treated as zero; 0.1: low-velocity release and pillow stop;
\* 0.01: inertia stop
VelocityZero == Scale \div 20
VelocityLow == Scale \div 10
VelocityStop == Scale \div 100

-----------------------------------------------------------------------------
(* slider.js and part_000: shared plumbing *)

Event(name, index) == [name |-> name, index |-> index]

\* the sliderDragStart and sliderDragEnd notifications dispatched since construction
Tally(tally, name) ==
    IF name = "sliderDragStart" THEN [tally EXCEPT !.starts = @ + 1]
    ELSE IF name = "sliderDragEnd" THEN [tally EXCEPT !.ends = @ + 1]
    ELSE tally

\* emit(name, detail): the events dispatched by the handler now running
emit(mm, name) ==
    [mm EXCEPT !.emitted = Append(@, Event(name, -1)), !.tally = Tally(@, name)]

emitIndex(mm, name, index) ==
    [mm EXCEPT !.emitted = Append(@, Event(name, index)), !.tally = Tally(@, name)]

\* setTranslate writes the offset; checkVisibilityEvents only dispatches a DOM event
setTranslate(mm, translate) == [mm EXCEPT !.state.currentTranslate = translate]

Remove(q, id) == SelectSeq(q, LAMBDA cb : cb.id # id)

\* cancelAnimationFrame(rafId): the callback is dropped from the frame queue, also
\* when it belongs to the frame now being run
stopTransition(mm) ==
    IF mm.state.rafId # 0
    THEN [mm EXCEPT !.frames = Remove(@, mm.state.rafId),
                    !.batch = Remove(@, mm.state.rafId),
                    !.state.rafId = 0]
    ELSE mm

\* the handle requestAnimationFrame returns: one no pending callback has
FreshId(mm) ==
    LET used == {mm.frames[i].id : i \in 1..Len(mm.frames)}
                \cup {mm.batch[i].id : i \in 1..Len(mm.batch)}
    IN  CHOOSE i \in 1..(Cardinality(used) + 1) :
            i \notin used /\ \A j \in 1..(i - 1) : j \in used

\* this.state.rafId = requestAnimationFrame(cb)
requestAnimationFrame(mm, cb) ==
    LET id == FreshId(mm)
    IN  [mm EXCEPT !.frames = Append(@, [cb EXCEPT !.id = id]),
                   !.state.rafId = id]

-----------------------------------------------------------------------------
(* Geometry *)

\* slider.js: every slide centred in the container.  With no slide
\* getMarginRight(undefined) throws out of getComputedStyle once the grid is emptied and
\* before the bounds are written
updateDimensions_slider(mm, d) ==
    LET n == Len(d.slides)
        grid == [i \in 1..n |->
                    -(SlideLeft(d, i) * Scale)
                    + Div((d.containerWidth - d.slides[i].width) * Scale, 2)]
    IN  IF n = 0
        THEN [mm EXCEPT !.slidesGrid = <<>>, !.thrown = TRUE]
        ELSE [mm EXCEPT !.slidesGrid = grid,
                        !.minTranslate = grid[1],
                        !.maxTranslate = grid[n]]

\* part_000: centred or leading-edge grid; with no slides the grid is emptied and the
\* bounds are left as they were.  The wrapper's rectangle includes the transform, which
\* the code subtracts again
updateDimensions_part(mm, d) ==
    LET n == Len(d.slides)
        transform == mm.state.currentTranslate
        wrapperOffset == (d.padding * Scale + transform) - transform
        grid == [i \in 1..n |->
                    IF options.centered
                    THEN Div((d.containerWidth - d.slides[i].width) * Scale, 2)
                         - SlideLeft(d, i) * Scale - wrapperOffset
                    ELSE -(SlideLeft(d, i) * Scale)]
        wrapperWidth == (SlideLeft(d, n) + d.slides[n].width + d.slides[n].marginRight) * Scale
        maxScroll == d.containerWidth * Scale - wrapperWidth - wrapperOffset
    IN  IF n = 0
        THEN [mm EXCEPT !.slidesGrid = <<>>]
        ELSE [mm EXCEPT !.slidesGrid = grid,
                        !.minTranslate = grid[1],
                        !.maxTranslate = IF options.centered THEN grid[n]
                                         ELSE Min(grid[1], maxScroll)]

updateDimensions(mm, d) ==
    IF variant = "slider" THEN updateDimensions_slider(mm, d)
    ELSE updateDimensions_part(mm, d)

-----------------------------------------------------------------------------
(* Velocity estimator *)

\* positions.push({x, time: now}); keep the samples with now - time < 100
trackVelocity(mm, x) ==
    [mm EXCEPT !.state.positions =
        SelectSeq(Append(@, [x |-> x, age |-> 0]), LAMBDA p : p.age < velocityWindow)]

\* calculateVelocity over the last two samples instead of the first and the last
calculateVelocity_lastTwo(mm) ==
    LET positions == mm.state.positions
        first == positions[Len(positions) - 1]
        last == Last(positions)
        dt == first.age - last.age
    IN  IF Len(positions) < 2 THEN 0
        ELSE IF dt = 0 THEN 0
        ELSE Div((last.x - first.x) * Scale, dt)

\* (last.x - first.x) / (last.time - first.time), 0 with fewer than two samples or dt = 0
calculateVelocity(mm) ==
    LET positions == mm.state.positions
        first == positions[1]
        last == Last(positions)
        dt == first.age - last.age
    IN  IF Len(positions) < 2 THEN 0
        ELSE IF dt = 0 THEN 0
        ELSE Div((last.x - first.x) * Scale, dt)

-----------------------------------------------------------------------------
(* Timed animation (slider.js, part_000) *)

\* easeOutQuad t * (2 - t) and easeOutQuart 1 - (1 - t)^4 on a progress t in 0..Scale
Easing(kind, t) ==
    IF kind = "quad" THEN Div(t * (2 * Scale - t), Scale)
    ELSE LET q == Scale - t
             q2 == Div(q * q, Scale)
         IN  Scale - Div(q2 * q2, Scale)

\* the closure of animateTo's loop; callback is the slide index its completion reports
\* with slideChange, or -1 when the animation has no callback
LoopClosure(start, distance, duration, easing, callback) ==
    [id |-> 0, kind |-> "loop", start |-> start, distance |-> distance, elapsed |-> 0,
     duration |-> duration, easing |-> easing, callback |-> callback]

\* the closure of startInertia's step
StepClosure(velocity, current) ==
    [id |-> 0, kind |-> "step", velocity |-> velocity, current |-> current, sinceLast |-> 0]

\* animateTo(target, ...): cancel the frame rafId names, then schedule the loop
animateTo(mm, target, duration, easing, callback) ==
    LET start == mm.state.currentTranslate
        distance == Add(target, IF IsNaN(start) THEN NaN ELSE -start)
    IN  requestAnimationFrame(stopTransition(mm),
                              LoopClosure(start, distance, duration, easing, callback))

\* animateTo's loop with the completion callback run before sliderStop is emitted
loop_callbackFirst(mm, cb) ==
    IF mm.state.isDragging THEN mm
    ELSE LET progress == Min(Div(cb.elapsed * Scale, cb.duration), Scale)
             ease == Easing(cb.easing, progress)
             newPos == IF IsNaN(cb.distance) THEN NaN
                       ELSE cb.start + Div(cb.distance * ease, Scale)
             m1 == setTranslate(mm, newPos)
         IN  IF progress < Scale
             THEN requestAnimationFrame(m1, cb)
             ELSE LET m2 == IF cb.callback >= 0
                            THEN emitIndex(m1, "slideChange", cb.callback)
                            ELSE m1
                  IN  emit(m2, "sliderStop")

\* animateTo's loop without the test of isDragging
loop_through(mm, cb) ==
    LET progress == Min(Div(cb.elapsed * Scale, cb.duration), Scale)
        ease == Easing(cb.easing, progress)
        newPos == IF IsNaN(cb.distance) THEN NaN
                  ELSE cb.start + Div(cb.distance * ease, Scale)
        m1 == setTranslate(mm, newPos)
    IN  IF progress < Scale
        THEN requestAnimationFrame(m1, cb)
        ELSE LET m2 == emit(m1, "sliderStop")
             IN  IF cb.callback >= 0 THEN emitIndex(m2, "slideChange", cb.callback)
                 ELSE m2

\* one run of animateTo's loop
loop(mm, cb) ==
    IF mm.state.isDragging THEN mm
    ELSE LET progress == Min(Div(cb.elapsed * Scale, cb.duration), Scale)
             ease == Easing(cb.easing, progress)
             newPos == IF IsNaN(cb.distance) THEN NaN
                       ELSE cb.start + Div(cb.distance * ease, Scale)
             m1 == setTranslate(mm, newPos)
         IN  IF progress < Scale
             THEN requestAnimationFrame(m1, cb)
             ELSE LET m2 == emit(m1, "sliderStop")
                  IN  IF cb.callback >= 0 THEN emitIndex(m2, "slideChange", cb.callback)
                      ELSE m2

-----------------------------------------------------------------------------
(* Snap selector (slider.js, part_000) *)

\* the scan with diff <= minDiff: among entries at equal distance the last one wins
RECURSIVE ScanClosest_last(_, _, _, _)
ScanClosest_last(grid, searchPos, i, closestIndex) ==
    IF i > Len(grid) \/ IsNaN(searchPos) THEN closestIndex
    ELSE IF Abs(searchPos - grid[i]) <= Abs(searchPos - grid[closestIndex])
         THEN ScanClosest_last(grid, searchPos, i + 1, i)
         ELSE ScanClosest_last(grid, searchPos, i + 1, closestIndex)

\* the linear scan of snapToNearest: index of the closest grid entry, the first of equals;
\* from a NaN position every difference is NaN and the first entry stays
RECURSIVE ScanClosest(_, _, _, _)
ScanClosest(grid, searchPos, i, closestIndex) ==
    IF i > Len(grid) \/ IsNaN(searchPos) THEN closestIndex
    ELSE IF Abs(searchPos - grid[i]) < Abs(searchPos - grid[closestIndex])
         THEN ScanClosest(grid, searchPos, i + 1, i)
         ELSE ScanClosest(grid, searchPos, i + 1, closestIndex)

\* slidesGrid[i] of JavaScript, i from 1 here: undefined, NaN in arithmetic, past the end
GridAt(grid, i) == IF i <= Len(grid) THEN grid[i] ELSE NaN

\* the clamp of snapToNearest: two tests in a row
ClampToBounds(mm, closest) ==
    LET c1 == IF Gt(closest, mm.minTranslate) THEN mm.minTranslate ELSE closest
    IN  IF Lt(c1, mm.maxTranslate) THEN mm.maxTranslate ELSE c1

\* slider.js: nearest to the current offset, default easing, options.speed
snapToNearest_slider(mm) ==
    LET closestIndex == ScanClosest(mm.slidesGrid, mm.state.currentTranslate, 2, 1)
        closest == ClampToBounds(mm, GridAt(mm.slidesGrid, closestIndex))
    IN  animateTo(mm, closest, options.speed, "quad", closestIndex - 1)

NoTarget == <<>>

\* snapToNearest_part that searches from the current offset whatever it is given
snapToNearest_part_unprojected(mm, targetPosition) ==
    LET closestIndex == ScanClosest(mm.slidesGrid, mm.state.currentTranslate, 2, 1)
        closest == ClampToBounds(mm, GridAt(mm.slidesGrid, closestIndex))
    IN  animateTo(mm, closest, snapDuration, "quart", closestIndex - 1)

\* part_000: targetPosition is <<>> for null, <<p>> for a projected position p
snapToNearest_part(mm, targetPosition) ==
    LET searchPos == IF targetPosition # NoTarget THEN targetPosition[1]
                     ELSE mm.state.currentTranslate
        closestIndex == ScanClosest(mm.slidesGrid, searchPos, 2, 1)
        closest == ClampToBounds(mm, GridAt(mm.slidesGrid, closestIndex))
    IN  animateTo(mm, closest, snapDuration, "quart", closestIndex - 1)

snapToNearest(mm) ==
    IF variant = "slider" THEN snapToNearest_slider(mm)
    ELSE snapToNearest_part(mm, NoTarget)

\* part_000: timed return to the violated bound
snapToBounds(mm) ==
    LET target == mm.state.currentTranslate
    IN  IF Gt(target, mm.minTranslate)
        THEN animateTo(mm, mm.minTranslate, boundsDuration, "quart", -1)
        ELSE IF Lt(target, mm.maxTranslate)
        THEN animateTo(mm, mm.maxTranslate, boundsDuration, "quart", -1)
        ELSE mm

-----------------------------------------------------------------------------
(* Inertia (slider.js, part_000) *)

\* startInertia: schedules step without cancelling the frame rafId names
startInertia(mm) ==
    requestAnimationFrame(mm, StepClosure(mm.state.velocity, mm.state.currentTranslate))

\* the tail of step: current += velocity * dt, write it, schedule the next step
StepAdvance(mm, velocity, current, dt) ==
    LET c1 == Add(current, velocity * dt)
    IN  requestAnimationFrame(setTranslate(mm, c1), StepClosure(velocity, c1))

\* slider.js: spring force out of bounds, friction inside
step_slider(mm, cb) ==
    IF mm.state.isDragging THEN mm
    ELSE LET dt == Min(cb.sinceLast, dtCap)
             current == cb.current
             over == Gt(current, mm.minTranslate)
             under == ~over /\ Lt(current, mm.maxTranslate)
             force == IF over THEN Mul(mm.minTranslate - current, 5, 100)
                      ELSE IF under THEN Mul(mm.maxTranslate - current, 5, 100)
                      ELSE 0
         IN  IF over \/ under
             THEN LET velocity == Mul(cb.velocity + Div(force * dt, 16), 80, 100)
                  IN  IF Abs(velocity) < VelocityStop /\ Abs(force) < VelocityStop
                      THEN emit(setTranslate(mm, IF Gt(current, mm.minTranslate)
                                                 THEN mm.minTranslate
                                                 ELSE mm.maxTranslate),
                                "sliderStop")
                      ELSE StepAdvance(mm, velocity, current, dt)
             ELSE LET velocity == Mul(cb.velocity, options.friction, 100)
                  IN  IF Abs(velocity) < VelocityStop
                      THEN IF options.freeMode THEN emit(mm, "sliderStop")
                           ELSE snapToNearest_slider(mm)
                      ELSE StepAdvance(mm, velocity, current, dt)

\* part_000: heavy friction out of bounds, then the timed return
step_part(mm, cb) ==
    IF mm.state.isDragging THEN mm
    ELSE LET dt == Min(cb.sinceLast, dtCap)
             current == cb.current
             isOutOfBounds == Gt(current, mm.minTranslate) \/ Lt(current, mm.maxTranslate)
         IN  IF isOutOfBounds
             THEN LET velocity == Mul(cb.velocity, 6, 10)
                  IN  IF Abs(velocity) < VelocityLow THEN snapToBounds(mm)
                      ELSE StepAdvance(mm, velocity, current, dt)
             ELSE LET velocity == Mul(cb.velocity, options.friction, 100)
                  IN  IF Abs(velocity) < VelocityStop
                      THEN IF options.freeMode THEN emit(mm, "sliderStop")
                           ELSE snapToNearest_part(mm, NoTarget)
                      ELSE StepAdvance(mm, velocity, current, dt)

-----------------------------------------------------------------------------
(* Touch handlers (slider.js, part_000) *)

\* onTouchStart is the same text in slider.js and part_000
onTouchStart(mm, x, y) ==
    LET m1 == IF mm.state.rafId # 0 THEN emit(stopTransition(mm), "sliderTouchStop")
              ELSE mm
        m2 == [m1 EXCEPT !.state.startTouchX = x,
                         !.state.startTouchY = y,
                         !.state.startTranslate = m1.state.currentTranslate,
                         !.state.isDragging = TRUE,
                         !.state.isHorizontal = "null",
                         !.state.positions = <<>>]
    IN  emit(trackVelocity(m2, x), "sliderDragStart")

\* angleDeg < options.angleThreshold, for the default threshold of 65 degrees
AngleIsHorizontal(absX, absY) == absY * 10000 < absX * tanAngleThreshold

\* DirectionLock without the test that the flag is still unknown: every sample outside
\* the dead zone classifies again
DirectionLock_relock(isHorizontal, absX, absY, deadZone) ==
    IF absX < deadZone /\ absY < deadZone THEN isHorizontal
    ELSE IF AngleIsHorizontal(absX, absY) THEN "true"
    ELSE "false"

\* DirectionLock without the dead zone: the first sample classifies
DirectionLock_eager(isHorizontal, absX, absY, deadZone) ==
    IF isHorizontal # "null" THEN isHorizontal
    ELSE IF AngleIsHorizontal(absX, absY) THEN "true"
    ELSE "false"

\* the direction lock of onTouchMove: the flag after this sample, given the flag before
DirectionLock(isHorizontal, absX, absY, deadZone) ==
    IF isHorizontal # "null" THEN isHorizontal
    ELSE IF absX < deadZone /\ absY < deadZone THEN "null"
    ELSE IF AngleIsHorizontal(absX, absY) THEN "true"
    ELSE "false"

\* slider.js: resistance at the edges, Math.pow(overscroll, 0.75)
Resistance_slider(mm, translate) ==
    IF Gt(translate, mm.minTranslate)
    THEN mm.minTranslate + Pow075(translate - mm.minTranslate)
    ELSE IF Lt(translate, mm.maxTranslate)
    THEN mm.maxTranslate - Pow075(mm.maxTranslate - translate)
    ELSE translate

\* part_000: resistance at the edges, overscroll * 0.25
Resistance_part(mm, translate) ==
    IF Gt(translate, mm.minTranslate)
    THEN mm.minTranslate + Mul(translate - mm.minTranslate, 25, 100)
    ELSE IF Lt(translate, mm.maxTranslate)
    THEN mm.maxTranslate - Mul(mm.maxTranslate - translate, 25, 100)
    ELSE translate

\* the drag branch of onTouchMove: move the track, record the sample, notify
DragTo(mm, translate, currentX) ==
    emit(trackVelocity(setTranslate(mm, translate), currentX), "sliderMove")

\* slider.js: a non-cancelable event only skips preventDefault
onTouchMove_slider(mm, x, y, cancelable) ==
    IF ~mm.state.isDragging THEN mm
    ELSE LET deltaX == x - mm.state.startTouchX
             deltaY == y - mm.state.startTouchY
             lock == DirectionLock(mm.state.isHorizontal, Abs(deltaX), Abs(deltaY),
                                   deadZoneSlider)
         IN  IF lock = "null" THEN mm
             ELSE IF lock = "false"
             THEN [mm EXCEPT !.state.isHorizontal = "false", !.state.isDragging = FALSE]
             ELSE DragTo([mm EXCEPT !.state.isHorizontal = "true", !.prevented = cancelable],
                         Resistance_slider(mm, Add(mm.state.startTranslate, deltaX * Scale)),
                         x)

\* part_000: a non-cancelable event returns before the track is moved
onTouchMove_part(mm, x, y, cancelable) ==
    IF ~mm.state.isDragging THEN mm
    ELSE LET deltaX == x - mm.state.startTouchX
             deltaY == y - mm.state.startTouchY
             lock == DirectionLock(mm.state.isHorizontal, Abs(deltaX), Abs(deltaY),
                                   deadZonePart)
         IN  IF lock = "null" THEN mm
             ELSE IF lock = "false"
             THEN [mm EXCEPT !.state.isHorizontal = "false", !.state.isDragging = FALSE]
             ELSE IF ~cancelable THEN [mm EXCEPT !.state.isHorizontal = "true"]
             ELSE DragTo([mm EXCEPT !.state.isHorizontal = "true", !.prevented = TRUE],
                         Resistance_part(mm, Add(mm.state.startTranslate, deltaX * Scale)), x)

\* the release velocity: calculateVelocity, treated as 0 below 0.05
ReleaseVelocity(mm) ==
    LET v == calculateVelocity(mm)
    IN  IF Abs(v) < VelocityZero THEN 0 ELSE v

\* slider.js: touchcancel snaps, touchend starts inertia
onTouchEnd_slider(mm, type) ==
    IF ~mm.state.isDragging THEN mm
    ELSE IF mm.state.isHorizontal # "true" THEN [mm EXCEPT !.state.isDragging = FALSE]
    ELSE LET m1 == emit([mm EXCEPT !.state.isDragging = FALSE], "sliderDragEnd")
         IN  IF type = "touchcancel" THEN snapToNearest_slider(m1)
             ELSE startInertia([m1 EXCEPT !.state.velocity = ReleaseVelocity(mm),
                                          !.estimate = <<calculateVelocity(mm)>>])

\* onTouchEnd_part without the slow release out of bounds: that release starts inertia
onTouchEnd_part_inertia(mm, type) ==
    IF ~mm.state.isDragging THEN mm
    ELSE IF mm.state.isHorizontal # "true" THEN [mm EXCEPT !.state.isDragging = FALSE]
    ELSE LET m1 == emit([mm EXCEPT !.state.isDragging = FALSE], "sliderDragEnd")
             m2 == [m1 EXCEPT !.state.velocity = ReleaseVelocity(mm),
                              !.estimate = <<calculateVelocity(mm)>>]
             current == m2.state.currentTranslate
             velocity == m2.state.velocity
         IN  IF type = "touchcancel" THEN snapToNearest_part(m1, NoTarget)
             ELSE IF ~options.freeMode /\ ~IsNaN(current)
                     /\ current <= m2.minTranslate /\ current >= m2.maxTranslate
             THEN snapToNearest_part(m2, <<current + velocity * projectionMs>>)
             ELSE startInertia(m2)

\* part_000: touchcancel snaps; a slow release out of bounds returns to the bound; snap
\* mode in bounds snaps to the projected position; everything else starts inertia
onTouchEnd_part(mm, type) ==
    IF ~mm.state.isDragging THEN mm
    ELSE IF mm.state.isHorizontal # "true" THEN [mm EXCEPT !.state.isDragging = FALSE]
    ELSE LET m1 == emit([mm EXCEPT !.state.isDragging = FALSE], "sliderDragEnd")
             m2 == [m1 EXCEPT !.state.velocity = ReleaseVelocity(mm),
                              !.estimate = <<calculateVelocity(mm)>>]
             current == m2.state.currentTranslate
             velocity == m2.state.velocity
         IN  IF type = "touchcancel" THEN snapToNearest_part(m1, NoTarget)
             ELSE IF (Gt(current, m2.minTranslate) \/ Lt(current, m2.maxTranslate))
                     /\ Abs(velocity) < VelocityLow
             THEN snapToBounds(m2)
             ELSE IF ~options.freeMode /\ ~IsNaN(current)
                     /\ current <= m2.minTranslate /\ current >= m2.maxTranslate
             THEN snapToNearest_part(m2, <<current + velocity * projectionMs>>)
             ELSE startInertia(m2)

\* the resize listener of init: updateDimensions, then snapToNearest unless
\* updateDimensions has thrown
onResize(mm, d) ==
    LET m1 == updateDimensions(mm, d)
    IN  IF m1.thrown THEN m1 ELSE snapToNearest(m1)

-----------------------------------------------------------------------------
(* TouchSlider.js *)

defaultFrictionTouch == 94
touchDeadZone == 10
historyWindow == 150
velocityWindowTouch == 100
frameMs == 16

\* tan(80 deg) * 10^4, the constant 5.6713 of handleTouchMove
tan80deg == 56713

\* options of TouchSlider.js in 1/Scale: velocityThreshold 0.1 and the forced-adjacent
\* threshold 0.5 of findNearestSlide
velocityThreshold == Scale \div 10
forcedThreshold == Scale \div 2

\* width of the i-th slide element captured by init; an element no longer in the
\* document measures 0
OffsetWidth(d, i) == IF i <= Len(d.slides) THEN d.slides[i].width * Scale ELSE 0

OffsetLeft(d, i) == IF i <= Len(d.slides) THEN SlideLeft(d, i) * Scale ELSE 0

\* the events TouchSlider.js dispatches
EventNames ==
    {"manualStop", "sliderDragStart", "sliderDragEnd", "sliderSnapStart",
     "sliderSnapComplete", "sliderStop", "sliderMove", "slideChange",
     "lastSlideVisibleStart", "lastSlideVisibleFull"}

\* a function the page subscribes: it is written for one event and, when called, only
\* listens, unsubscribes itself ("once"), unsubscribes every handler of its event
\* ("mute") or subscribes the listener of its event ("join")
Handler(for, does) == [for |-> for, does |-> does]

\* a handler argument that is not a function, or not passed
NoHandler == Handler("", "")

\* this.eventHandlers = {}: the array of an event, <<>> for an event that has none (an
\* array is created by the first push and deleted when its last handler goes, so no
\* array of the object is ever empty)
NoHandlers == [e \in EventNames |-> <<>>]

\* no forEach is running
Idle == [name |-> "", array |-> <<>>, live |-> FALSE]

\* on() that puts the handler in front of those subscribed before it (unshift)
on_unshift(mm, eventName, handler) ==
    IF handler = NoHandler THEN mm
    ELSE [mm EXCEPT !.eventHandlers[eventName] = <<handler>> \o @,
                    !.iteration.array =
                        IF mm.iteration.live /\ mm.iteration.name = eventName
                        THEN <<handler>> \o @ ELSE @]

\* on(eventName, handler): push onto the array of the event, the very array a running
\* forEach of that event walks as long as off() has not replaced it
on(mm, eventName, handler) ==
    IF handler = NoHandler THEN mm
    ELSE [mm EXCEPT !.eventHandlers[eventName] = Append(@, handler),
                    !.iteration.array =
                        IF mm.iteration.live /\ mm.iteration.name = eventName
                        THEN Append(@, handler) ELSE @]

\* off() that removes the handler from the array in place (splice)
off_splice(mm, eventName, handler) ==
    IF Len(mm.eventHandlers[eventName]) = 0 THEN mm
    ELSE LET kept == IF handler = NoHandler THEN <<>>
                     ELSE SelectSeq(mm.eventHandlers[eventName], LAMBDA h : h # handler)
         IN  [mm EXCEPT !.eventHandlers[eventName] = kept,
                        !.iteration.array =
                            IF mm.iteration.live /\ mm.iteration.name = eventName
                            THEN kept ELSE @]

\* off(eventName, handler): delete the array, or replace it by a filtered copy; an array
\* a running forEach walks is left as it is
off(mm, eventName, handler) ==
    IF Len(mm.eventHandlers[eventName]) = 0 THEN mm
    ELSE LET kept == IF handler = NoHandler THEN <<>>
                     ELSE SelectSeq(mm.eventHandlers[eventName], LAMBDA h : h # handler)
         IN  [mm EXCEPT !.eventHandlers[eventName] = kept,
                        !.iteration.live = @ /\ mm.iteration.name # eventName]

\* cancelAnimationFrame(this.animation.rafId) of handleTouchMove and destroy
cancelAnimate(mm) ==
    [mm EXCEPT !.frames = Remove(@, mm.animation.rafId),
               !.batch = Remove(@, mm.animation.rafId),
               !.animation.rafId = 0,
               !.animation.isAnimating = FALSE]

\* destroy(): cancel the frame callback rafId names, if it names one, and remove the
\* listeners
destroy(mm) ==
    LET m1 == IF mm.animation.rafId # 0 THEN cancelAnimate(mm) ELSE mm
    IN  [m1 EXCEPT !.detached = {"touchstart", "touchmove", "touchend", "touchcancel",
                                 "resize"}]

\* handler(event): the call is recorded in invoked, then the function does what it was
\* written to do; a "destroy" handler calls slider.destroy()
call(mm, name, handler) ==
    LET m1 == [mm EXCEPT !.invoked = Append(@, [name |-> name, handler |-> handler])]
    IN  IF handler.does = "destroy" THEN destroy(m1)
        ELSE IF handler.does = "once" THEN off(m1, handler.for, handler)
        ELSE IF handler.does = "mute" THEN off(m1, handler.for, NoHandler)
        ELSE IF handler.does = "join" THEN on(m1, handler.for, Handler(handler.for, "listen"))
        ELSE m1

\* Array.prototype.forEach: the length is read once, the elements are read from the
\* array as it is when their turn comes, an index the array no longer has is skipped
RECURSIVE forEach(_, _, _)
forEach(mm, k, len) ==
    IF k > len THEN mm
    ELSE IF k > Len(mm.iteration.array) THEN forEach(mm, k + 1, len)
    ELSE Once(call(mm, mm.iteration.name, mm.iteration.array[k]),
              LAMBDA v : forEach(v, k + 1, len))

\* dispatchEvent: the CustomEvent goes to the element (emitted), then the handlers of
\* eventHandlers[eventName] are called; subscribed records the array found
dispatchEvent(mm, name, index) ==
    Once([mm EXCEPT !.emitted = Append(@, Event(name, index)),
                    !.tally = Tally(@, name),
                    !.subscribed = Append(@, mm.eventHandlers[name])],
         LAMBDA m1 :
             LET array == m1.eventHandlers[name]
             IN  IF Len(array) = 0 THEN m1
                 ELSE [forEach([m1 EXCEPT !.iteration =
                                              [name |-> name, array |-> array, live |-> TRUE]],
                               1, Len(array))
                          EXCEPT !.iteration = Idle])

\* calculateDimensions without this.state.trackWidth = 0: the widths add to the old sum
calculateDimensions_accumulating(mm, d) ==
    [mm EXCEPT !.state.sliderWidth = d.containerWidth * Scale,
               !.state.trackWidth = @ + SumTo([i \in 1..mm.slides |-> OffsetWidth(d, i)],
                                              mm.slides)]

\* the two widths: the container's, and the sum of the widths of the captured slides
calculateDimensions(mm, d) ==
    [mm EXCEPT !.state.sliderWidth = d.containerWidth * Scale,
               !.state.trackWidth = SumTo([i \in 1..mm.slides |-> OffsetWidth(d, i)], mm.slides)]

setTrackPosition(mm, x) == [mm EXCEPT !.state.currentX = x]

getBounds(mm) == [min |-> -(mm.state.trackWidth - mm.state.sliderWidth), max |-> 0]

clamp(value, min, max) == Min(Max(value, min), max)

\* resistance 0.5 on Math.pow(overshoot, 0.7)
applyRubberBand(mm, position) ==
    LET bounds == getBounds(mm)
    IN  IF position >= bounds.min /\ position <= bounds.max THEN position
        ELSE IF position > bounds.max
        THEN bounds.max + Div(Pow07(position - bounds.max), 2)
        ELSE IF position < bounds.min
        THEN bounds.min - Div(Pow07(bounds.min - position), 2)
        ELSE position

\* the visibility predicates of checkLastSlideVisibility and the flags they set
checkLastSlideVisibility(mm, d) ==
    Once(mm, LAMBDA v :
        IF v.slides = 0 THEN v
        ELSE LET lastSlideOffset == OffsetLeft(d, v.slides)
                 lastSlideRight == lastSlideOffset + OffsetWidth(d, v.slides)
                 viewportRight == -v.state.currentX + v.state.sliderWidth
                 viewportLeft == -v.state.currentX
                 isVisibleStart == lastSlideOffset < viewportRight
                 isVisibleFull == lastSlideOffset >= viewportLeft /\ lastSlideRight <= viewportRight
                 m1 == IF isVisibleStart /\ ~v.state.lastSlideVisibleStart
                       THEN dispatchEvent([v EXCEPT !.state.lastSlideVisibleStart = TRUE],
                                          "lastSlideVisibleStart", v.slides - 1)
                       ELSE [v EXCEPT !.state.lastSlideVisibleStart = isVisibleStart]
             IN  IF isVisibleFull /\ ~m1.state.lastSlideVisibleFull
                 THEN dispatchEvent([m1 EXCEPT !.state.lastSlideVisibleFull = TRUE],
                                    "lastSlideVisibleFull", v.slides - 1)
                 ELSE [m1 EXCEPT !.state.lastSlideVisibleFull = isVisibleFull])

\* resting offset of every captured slide, centred or leading-edge
getSlidePositions(mm, d) ==
    [i \in 1..mm.slides |->
        LET accumulatedOffset == SumTo([j \in 1..(i - 1) |-> OffsetWidth(d, j)], i - 1)
            slideWidth == OffsetWidth(d, i)
        IN  IF options.snapAlign = "center"
            THEN -((accumulatedOffset + Div(slideWidth, 2)) - Div(mm.state.sliderWidth, 2))
            ELSE -accumulatedOffset]

\* findNearestSlide without the forced-adjacent rule
ForcedAdjacent_nearest(nearest, currentSlideIndex, velocity, n) == nearest

\* the forced-adjacent rule of findNearestSlide: the index (from 0) it ends with
ForcedAdjacent(nearest, currentSlideIndex, velocity, n) ==
    IF Abs(velocity) > forcedThreshold
    THEN IF velocity < 0
         THEN LET nextIndex == Min(currentSlideIndex + 1, n - 1)
              IN  IF nextIndex > currentSlideIndex THEN nextIndex ELSE nearest
         ELSE LET prevIndex == Max(currentSlideIndex - 1, 0)
              IN  IF prevIndex < currentSlideIndex THEN prevIndex ELSE nearest
    ELSE nearest

\* findNearestSlide(currentPosition, velocity): index from 0 and clamped position
findNearestSlide(mm, d, currentPosition, velocity) ==
    LET slidePositions == getSlidePositions(mm, d)
        projectedPosition == currentPosition + Mul(velocity, 120, 1)
        nearest == ScanClosest(slidePositions, projectedPosition, 1, 1) - 1
        index == ForcedAdjacent(nearest, mm.state.currentSlideIndex, velocity,
                                Len(slidePositions))
        bounds == getBounds(mm)
    IN  IF Len(slidePositions) = 0 THEN [index |-> 0, position |-> 0]
        ELSE [index |-> index,
              position |-> clamp(slidePositions[index + 1], bounds.min, bounds.max)]

\* this.animation.rafId = requestAnimationFrame(this.animate)
requestAnimate(mm) ==
    LET id == FreshId(mm)
    IN  [mm EXCEPT !.frames = Append(@, [id |-> id, kind |-> "animate"]),
                   !.animation.rafId = id]

\* handleTouchStart that stops the animation in flight, as onTouchStart of slider.js does
handleTouchStart_stopping(mm, x, y) ==
    [cancelAnimate(mm) EXCEPT !.state.isSnapping = FALSE,
                              !.touch.startX = x,
                              !.touch.startY = y,
                              !.touch.startPositionX = mm.state.currentX,
                              !.touch.isDirectionDetermined = FALSE,
                              !.touch.isHorizontalSwipe = FALSE,
                              !.touch.isTouching = TRUE,
                              !.touch.velocityX = 0,
                              !.touch.history = <<[x |-> mm.state.currentX, age |-> 0]>>]

\* handleTouchStart: nothing is cancelled; the velocity is zeroed and the history
\* restarts with the track position
handleTouchStart(mm, x, y) ==
    [mm EXCEPT !.touch.startX = x,
               !.touch.startY = y,
               !.touch.startPositionX = mm.state.currentX,
               !.touch.isDirectionDetermined = FALSE,
               !.touch.isHorizontalSwipe = FALSE,
               !.touch.isTouching = TRUE,
               !.touch.velocityX = 0,
               !.touch.history = <<[x |-> mm.state.currentX, age |-> 0]>>]

\* ratio < tan80deg, vertical when absDeltaX is 0
RatioIsHorizontal(absDeltaX, absDeltaY) ==
    absDeltaX # 0 /\ absDeltaY * 10000 < absDeltaX * tan80deg

\* the horizontal classification of handleTouchMove: stop the animation, start the drag
BeginDrag(mm) ==
    LET m1 == IF mm.animation.rafId # 0
              THEN dispatchEvent(cancelAnimate(mm), "manualStop", -1)
              ELSE mm
    IN  dispatchEvent([m1 EXCEPT !.state.isSnapping = FALSE,
                                 !.touch.startPositionX = m1.state.currentX,
                                 !.state.isDragging = TRUE],
                      "sliderDragStart", -1)

\* the direction detection without the test of isDirectionDetermined: every sample
\* outside the dead zone classifies again
DetermineDirection_relock(mm, absDeltaX, absDeltaY) ==
    IF absDeltaX > touchDeadZone \/ absDeltaY > touchDeadZone
    THEN LET horizontal == RatioIsHorizontal(absDeltaX, absDeltaY)
             m1 == [mm EXCEPT !.touch.isDirectionDetermined = TRUE,
                              !.touch.isHorizontalSwipe = horizontal]
         IN  IF horizontal THEN BeginDrag(m1) ELSE m1
    ELSE mm

\* the direction detection of handleTouchMove
DetermineDirection(mm, absDeltaX, absDeltaY) ==
    IF mm.touch.isDirectionDetermined THEN mm
    ELSE IF absDeltaX > touchDeadZone \/ absDeltaY > touchDeadZone
    THEN LET horizontal == RatioIsHorizontal(absDeltaX, absDeltaY)
             m1 == [mm EXCEPT !.touch.isDirectionDetermined = TRUE,
                              !.touch.isHorizontalSwipe = horizontal]
         IN  IF horizontal THEN BeginDrag(m1) ELSE m1
    ELSE mm

\* handleTouchMove: preventDefault is called whether or not the event is cancelable, and
\* prevents the native scroll if it is
handleTouchMove(mm, x, y, cancelable) ==
    IF ~mm.touch.isTouching THEN mm
    ELSE LET deltaX == x - mm.touch.startX
             deltaY == y - mm.touch.startY
             m1 == DetermineDirection(mm, Abs(deltaX), Abs(deltaY))
         IN  IF m1.touch.isDirectionDetermined /\ m1.touch.isHorizontalSwipe
             THEN LET newPositionX ==
                          applyRubberBand(m1, m1.touch.startPositionX + deltaX * Scale)
                  IN  [m1 EXCEPT !.state.currentX = newPositionX,
                                 !.prevented = cancelable,
                                 !.touch.history =
                                     SelectSeq(Append(@, [x |-> newPositionX, age |-> 0]),
                                               LAMBDA point : point.age <= historyWindow)]
             ELSE m1

\* calculateVelocity of TouchSlider.js: the samples of the last 100 ms
calculateVelocity_touch(mm) ==
    LET recentHistory == SelectSeq(mm.touch.history,
                                   LAMBDA point : point.age <= velocityWindowTouch)
        firstPoint == recentHistory[1]
        lastPoint == Last(recentHistory)
        deltaTime == firstPoint.age - lastPoint.age
    IN  IF Len(recentHistory) < 2 THEN 0
        ELSE IF deltaTime = 0 THEN 0
        ELSE Div(lastPoint.x - firstPoint.x, deltaTime)

\* the sliderMove notification of animate
NotifyMove(mm) ==
    Once(mm, LAMBDA v :
        IF v.state.currentX # v.state.previousX
        THEN [dispatchEvent(v, "sliderMove", -1) EXCEPT !.state.previousX = v.state.currentX]
        ELSE v)

\* animate, snap branch: ease toward snapTargetX, finish within 0.5 px
AnimateSnap(mm, d) ==
    LET diff == mm.state.snapTargetX - mm.state.currentX
    IN  IF Abs(diff) < Scale \div 2
        THEN LET m1 == [mm EXCEPT !.state.currentX = mm.state.snapTargetX,
                                  !.state.isSnapping = FALSE,
                                  !.animation.isAnimating = FALSE,
                                  !.animation.rafId = 0]
                 m2 == checkLastSlideVisibility(m1, d)
             IN  dispatchEvent(dispatchEvent(m2, "sliderSnapComplete",
                                             m2.state.currentSlideIndex),
                               "sliderStop", m2.state.currentSlideIndex)
        ELSE LET m1 == [mm EXCEPT !.state.currentX = @ + Mul(diff, 15, 100)]
             IN  requestAnimate(NotifyMove(checkLastSlideVisibility(m1, d)))

\* a call of findNearestSlide: its arguments, currentSlideIndex at the call, its result
Found(currentPosition, velocity, currentSlideIndex, result) ==
    [currentPosition |-> currentPosition, velocity |-> velocity,
     currentSlideIndex |-> currentSlideIndex, result |-> result]

\* animate, start of a snap: choose the slide, report a change of index
StartSnap(mm, d) ==
    LET nearestSlide == findNearestSlide(mm, d, mm.state.currentX, mm.touch.velocityX)
        m1 == [mm EXCEPT !.state.isSnapping = TRUE,
                         !.state.snapTargetX = nearestSlide.position,
                         !.found = Append(@, Found(mm.state.currentX, mm.touch.velocityX,
                                                   mm.state.currentSlideIndex,
                                                   nearestSlide))]
        m2 == IF nearestSlide.index # m1.state.currentSlideIndex
              THEN dispatchEvent(
                       [m1 EXCEPT !.state.previousSlideIndex = m1.state.currentSlideIndex,
                                  !.state.currentSlideIndex = nearestSlide.index],
                       "slideChange", nearestSlide.index)
              ELSE m1
    IN  requestAnimate(dispatchEvent(m2, "sliderSnapStart", nearestSlide.index))

\* animate, spring at the edges: position and velocity after the bounce
Spring(currentX, velocityX, bounds) ==
    IF currentX > bounds.max
    THEN LET overshoot == currentX - bounds.max
             v == Mul(velocityX + Mul(-overshoot, 12, 100), 95, 100)
         IN  IF Abs(overshoot) < Scale /\ Abs(v) < velocityThreshold
             THEN [currentX |-> bounds.max, velocityX |-> 0]
             ELSE [currentX |-> currentX, velocityX |-> v]
    ELSE IF currentX < bounds.min
    THEN LET overshoot == bounds.min - currentX
             v == Mul(velocityX + Mul(overshoot, 12, 100), 95, 100)
         IN  IF Abs(overshoot) < Scale /\ Abs(v) < velocityThreshold
             THEN [currentX |-> bounds.min, velocityX |-> 0]
             ELSE [currentX |-> currentX, velocityX |-> v]
    ELSE [currentX |-> currentX, velocityX |-> velocityX]

\* animate, free motion: apply the velocity, bounce, stop below velocityThreshold
AnimateFree(mm, d) ==
    LET after == Spring(mm.state.currentX + mm.touch.velocityX, mm.touch.velocityX,
                        getBounds(mm))
        m1 == [mm EXCEPT !.state.currentX = after.currentX,
                         !.touch.velocityX = after.velocityX]
    IN  Once(NotifyMove(checkLastSlideVisibility(m1, d)), LAMBDA m2 :
            IF Abs(m2.touch.velocityX) < velocityThreshold
            THEN dispatchEvent([m2 EXCEPT !.touch.velocityX = 0,
                                          !.animation.isAnimating = FALSE,
                                          !.animation.rafId = 0],
                               "sliderStop", -1)
            ELSE requestAnimate(m2))

\* animate that starts the snap at the first frame after the release, whatever the velocity
animate_eager(mm, d) ==
    IF ~mm.animation.isAnimating THEN mm
    ELSE IF mm.state.isSnapping THEN AnimateSnap(mm, d)
    ELSE LET m1 == IF ~mm.state.isDragging
                   THEN [mm EXCEPT !.touch.velocityX = Mul(@, options.friction, 100)]
                   ELSE mm
         IN  IF ~mm.state.isDragging /\ ~options.freeMode /\ ~m1.state.isSnapping
             THEN StartSnap(m1, d)
             ELSE AnimateFree(m1, d)

\* animate: one frame of the animation loop
animate(mm, d) ==
    IF ~mm.animation.isAnimating THEN mm
    ELSE IF mm.state.isSnapping THEN AnimateSnap(mm, d)
    ELSE LET m1 == IF ~mm.state.isDragging
                   THEN [mm EXCEPT !.touch.velocityX = Mul(@, options.friction, 100)]
                   ELSE mm
         IN  IF ~mm.state.isDragging /\ ~options.freeMode /\ ~m1.state.isSnapping
                /\ Abs(m1.touch.velocityX) < velocityThreshold * 3
             THEN StartSnap(m1, d)
             ELSE AnimateFree(m1, d)

\* handleTouchEnd serves touchend and touchcancel alike
handleTouchEnd(mm, d, type) ==
    LET m1 == [mm EXCEPT !.touch.isTouching = FALSE]
    IN  IF ~m1.state.isDragging THEN m1
        ELSE LET m2 == [m1 EXCEPT !.touch.velocityX = calculateVelocity_touch(m1) * frameMs,
                                  !.state.isDragging = FALSE,
                                  !.estimate = <<calculateVelocity_touch(m1)>>]
                 m3 == IF ~m2.animation.isAnimating
                       THEN animate([m2 EXCEPT !.animation.isAnimating = TRUE], d)
                       ELSE m2
             IN  dispatchEvent(m3, "sliderDragEnd", -1)

\* handleResize: recompute the two widths, rewrite the current position
handleResize(mm, d) == setTrackPosition(calculateDimensions(mm, d), mm.state.currentX)

-----------------------------------------------------------------------------
(* Construction *)

\* slider.js and part_000: the fields set by the constructor, then init() as far as an
\* exception lets it run
NewSlider(d) ==
    LET m0 == [state |-> [isDragging |-> FALSE, startTouchX |-> 0, startTouchY |-> 0,
                          currentTranslate |-> 0, startTranslate |-> 0,
                          isHorizontal |-> "null", rafId |-> 0, velocity |-> 0,
                          positions |-> <<>>],
               slidesGrid |-> <<>>, minTranslate |-> 0, maxTranslate |-> 0,
               frames |-> <<>>, batch |-> <<>>, emitted |-> <<>>, thrown |-> FALSE,
               estimate |-> <<>>, invoked |-> <<>>, subscribed |-> <<>>, detached |-> {},
               prevented |-> FALSE, tally |-> [starts |-> 0, ends |-> 0], found |-> <<>>]
        m1 == updateDimensions(m0, d)
    IN  IF m1.thrown THEN m1
        ELSE setTranslate(m1, IF Len(m1.slidesGrid) > 0 THEN m1.slidesGrid[1] ELSE 0)

\* TouchSlider.js: the fields set by the constructor, then init()
NewTouchSlider(d) ==
    LET m0 == [state |-> [currentX |-> 0, isDragging |-> FALSE, sliderWidth |-> 0,
                          trackWidth |-> 0, isSnapping |-> FALSE, snapTargetX |-> 0,
                          currentSlideIndex |-> 0, previousSlideIndex |-> 0,
                          lastSlideVisibleStart |-> FALSE, lastSlideVisibleFull |-> FALSE,
                          previousX |-> 0],
               touch |-> [startX |-> 0, startY |-> 0, startPositionX |-> 0,
                          isTouching |-> FALSE, isDirectionDetermined |-> FALSE,
                          isHorizontalSwipe |-> FALSE, velocityX |-> 0, history |-> <<>>],
               animation |-> [rafId |-> 0, isAnimating |-> FALSE],
               eventHandlers |-> NoHandlers, iteration |-> Idle,
               slides |-> Len(d.slides),
               frames |-> <<>>, batch |-> <<>>, emitted |-> <<>>, thrown |-> FALSE,
               estimate |-> <<>>, invoked |-> <<>>, subscribed |-> <<>>, detached |-> {},
               prevented |-> FALSE, tally |-> [starts |-> 0, ends |-> 0], found |-> <<>>]
    IN  setTrackPosition(calculateDimensions(m0, d), 0)

\* the elements the constructor looks up: the container (the slider element) and the
\* wrapper (the track) inside it
Host(container, wrapper) == [container |-> container, wrapper |-> wrapper]

FullHost == Host(TRUE, TRUE)

\* the listeners attachEvents / attachEventListeners and init add
Listeners == {"touchstart", "touchmove", "touchend", "touchcancel", "resize"}

\* the frame queue of the page when no instance has been initialised
Unbuilt ==
    [frames |-> <<>>, batch |-> <<>>, emitted |-> <<>>, thrown |-> FALSE, estimate |-> <<>>,
     invoked |-> <<>>, subscribed |-> <<>>, detached |-> {}, prevented |-> FALSE,
     tally |-> [starts |-> 0, ends |-> 0], found |-> <<>>]

\* the end of a constructor call: the object, how the call ended ("ok", "error" for
\* console.error and return, "throws" for an exception), whether new hands the object to
\* the caller, the members assigned and the listeners attached by then
Built(object, outcome, returned, assigned, listeners) ==
    [object |-> object, outcome |-> outcome, returned |-> returned,
     assigned |-> assigned, listeners |-> listeners]

MembersSlider ==
    {"container", "wrapper", "options", "state", "slides", "slidesGrid", "wrapperWidth",
     "containerWidth", "maxTranslate", "minTranslate"}

\* the constructor of slider.js and part_000 without its two element checks
constructor_slider_unchecked(h, d) ==
    LET object == NewSlider(d)
    IN  IF object.thrown THEN Built(object, "throws", FALSE, MembersSlider, {})
        ELSE Built(object, "ok", TRUE, MembersSlider, Listeners)

\* the constructor of slider.js and part_000: a missing element is logged and the
\* constructor returns, so new yields the object as far as it was built
constructor_slider(h, d) ==
    IF ~h.container THEN Built(Unbuilt, "error", TRUE, {"container"}, {})
    ELSE IF ~h.wrapper THEN Built(Unbuilt, "error", TRUE, {"container", "wrapper"}, {})
    ELSE LET object == NewSlider(d)
         IN  IF object.thrown THEN Built(object, "throws", FALSE, MembersSlider, {})
             ELSE Built(object, "ok", TRUE, MembersSlider, Listeners)

MembersTouch ==
    {"slider", "options", "state", "touch", "animation", "eventHandlers", "track",
     "slides", "animate"}

\* the constructor of TouchSlider.js: a missing element throws, the track only in init()
\* after the constructor has assigned the options and the state
constructor_touch(h, d) ==
    IF ~h.container THEN Built(Unbuilt, "throws", FALSE, {"slider"}, {})
    ELSE IF ~h.wrapper THEN Built(Unbuilt, "throws", FALSE, MembersTouch, {})
    ELSE Built(NewTouchSlider(d), "ok", TRUE, MembersTouch \cup {"handleResize"}, Listeners)

-----------------------------------------------------------------------------
(* Time and the frame queue *)

\* d ms pass for a list of samples; once the newest sample is older than the window
\* every sample is, so the ages stop growing there, differences kept
AgeSamples(samples, d, window) ==
    IF Len(samples) = 0 THEN samples
    ELSE LET excess == Max(0, Last(samples).age + d - window)
         IN  [i \in 1..Len(samples) |-> [samples[i] EXCEPT !.age = @ + d - excess]]

\* d ms pass for a pending callback
AgeCallback(cb, d) ==
    IF cb.kind = "step" THEN [cb EXCEPT !.sinceLast = Min(@ + d, dtCap)]
    ELSE IF cb.kind = "loop" THEN [cb EXCEPT !.elapsed = Min(@ + d, cb.duration)]
    ELSE cb

\* d ms pass
Elapse(mm, d) ==
    LET m1 == [mm EXCEPT !.frames = [i \in 1..Len(mm.frames) |-> AgeCallback(mm.frames[i], d)]]
    IN  IF variant = "touch"
        THEN [m1 EXCEPT !.touch.history = AgeSamples(@, d, historyWindow + 1)]
        ELSE [m1 EXCEPT !.state.positions = AgeSamples(@, d, velocityWindow)]

\* an event arrives d ms after the previous one; emitted collects what its handler
\* emits, thrown tells that it ended in an exception, estimate holds what
\* calculateVelocity returned to it, invoked the subscribed functions it called,
\* subscribed the array each dispatch found, prevented that its preventDefault() has kept
\* the browser from scrolling, found the calls of findNearestSlide
Arrive(mm, d) ==
    [Elapse(mm, d) EXCEPT !.emitted = <<>>, !.thrown = FALSE, !.estimate = <<>>,
                          !.invoked = <<>>, !.subscribed = <<>>, !.prevented = FALSE,
                          !.found = <<>>]

RunCallback(mm, cb) ==
    IF cb.kind = "animate" THEN animate(mm, dom)
    ELSE IF cb.kind = "loop" THEN loop(mm, cb)
    ELSE IF variant = "slider" THEN step_slider(mm, cb)
    ELSE step_part(mm, cb)

RECURSIVE RunBatch(_)
RunBatch(mm) ==
    IF Len(mm.batch) = 0 THEN mm
    ELSE Once(RunCallback([mm EXCEPT !.batch = Tail(@)], Head(mm.batch)), RunBatch)

\* one display frame: the callbacks pending at its start run in the order they were
\* requested; those they request wait for the next frame
RunFrame(mm) == RunBatch([mm EXCEPT !.batch = mm.frames, !.frames = <<>>])

-----------------------------------------------------------------------------
(* Inputs *)

Variants == {"slider", "part", "touch"}

\* the option sets a constructor is called with
OptionsOf(v, friction) ==
    IF v = "slider"
    THEN {[freeMode |-> f, centered |-> TRUE, snapAlign |-> "center",
           friction |-> friction, speed |-> defaultSpeed] : f \in BOOLEAN}
    ELSE IF v = "part"
    THEN {[freeMode |-> FALSE, centered |-> c, snapAlign |-> "center",
           friction |-> friction, speed |-> defaultSpeed] : c \in BOOLEAN}
         \cup {[freeMode |-> TRUE, centered |-> TRUE, snapAlign |-> "center",
                friction |-> friction, speed |-> defaultSpeed]}
    ELSE {[freeMode |-> f, centered |-> TRUE, snapAlign |-> "center",
           friction |-> friction, speed |-> defaultSpeed] : f \in BOOLEAN}

\* options.friction when the caller passes none
DefaultFriction(v) == IF v = "touch" THEN defaultFrictionTouch ELSE defaultFriction

StartPoint == <<200, 300>>

Move(x, y, gap, cancelable) == [x |-> x, y |-> y, gap |-> gap, cancelable |-> cancelable]

\* the touchmove samples: where the finger is reported, how many ms after the previous
\* event, and whether the platform lets the event be cancelled.  Left and right swipes,
\* fast and slow; a sample inside the 10 px dead zones; a steep one (73 degrees); a
\* vertical one; a non-cancelable one
Moves ==
    { Move(140, 300, 16, TRUE), Move(140, 300, 80, TRUE), Move(260, 300, 16, TRUE),
      Move(260, 300, 120, TRUE), Move(206, 300, 80, TRUE), Move(200, 360, 16, TRUE),
      Move(260, 500, 16, TRUE), Move(140, 300, 16, FALSE) }

\* ms between the last sample and the release
EndGaps == {16, 120}

-----------------------------------------------------------------------------
(* Specification *)

Op(name, x, y, cancelable) == [name |-> name, x |-> x, y |-> y, cancelable |-> cancelable]

\* the index carried by the last slideChange of a handler's events, or the one before
RECURSIVE LastSlideChange(_, _)
LastSlideChange(events, previous) ==
    IF Len(events) = 0 THEN previous
    ELSE LastSlideChange(Tail(events),
                         IF Head(events).name = "slideChange" THEN Head(events).index
                         ELSE previous)

\* what a run may meet: the elements of the page, the geometries a resize brings, where
\* the finger lands and moves, how long after the last sample it is lifted
Env(host, geoms, start, moves, endGaps) ==
    [host |-> host, geoms |-> geoms, start |-> start, moves |-> moves, endGaps |-> endGaps]

\* new TouchSlider(...) on a page that has the geometry dom and the elements env.host
Construct(variants, friction) ==
    /\ variant \in variants
    /\ options \in OptionsOf(variant, IF friction = 0 THEN DefaultFriction(variant)
                                      ELSE friction)
    /\ LET built == IF variant = "touch" THEN constructor_touch(env.host, dom)
                    ELSE constructor_slider(env.host, dom)
       IN  /\ m = built.object
           /\ instance = [outcome |-> built.outcome, returned |-> built.returned,
                          assigned |-> built.assigned, listeners |-> built.listeners]
    /\ finger = FALSE
    /\ op = Op("init", 0, 0, TRUE)
    /\ count = [touches |-> 0, moves |-> 0, resizes |-> 0]
    /\ slideIndex = 0

\* the page of the runs that mix touches and resizes: the first geometry, every element
\* present, every geometry on resize
Page ==
    /\ dom = Geoms[1]
    /\ env = Env(FullHost, {Geoms[g] : g \in 1..Len(Geoms)}, StartPoint, Moves, EndGaps)

Init ==
    /\ Page
    /\ Construct(Variants, ShortFriction)
    /\ limit = [touches |-> MaxTouches, moves |-> MaxMoves, resizes |-> MaxResizes]
    /\ interval = FrameGap

\* the listener of an event type was added by the constructor and destroy() has not
\* removed it
Attached(type) == type \in instance.listeners \ m.detached

TouchStart ==
    /\ Attached("touchstart")
    /\ ~finger
    /\ count.touches < limit.touches
    /\ m' = IF variant = "touch"
            THEN handleTouchStart(Arrive(m, 0), env.start[1], env.start[2])
            ELSE onTouchStart(Arrive(m, 0), env.start[1], env.start[2])
    /\ finger' = TRUE
    /\ op' = Op("touchstart", env.start[1], env.start[2], TRUE)
    /\ count' = [count EXCEPT !.touches = @ + 1]
    /\ slideIndex' = LastSlideChange(m'.emitted, slideIndex)
    /\ UNCHANGED <<variant, options, dom, limit, interval, env, instance>>

TouchMove ==
    /\ Attached("touchmove")
    /\ finger
    /\ count.moves < limit.moves
    /\ \E mv \in env.moves :
          /\ m' = IF variant = "touch"
                  THEN handleTouchMove(Arrive(m, mv.gap), mv.x, mv.y, mv.cancelable)
                  ELSE IF variant = "slider"
                  THEN onTouchMove_slider(Arrive(m, mv.gap), mv.x, mv.y, mv.cancelable)
                  ELSE onTouchMove_part(Arrive(m, mv.gap), mv.x, mv.y, mv.cancelable)
          /\ op' = Op("touchmove", mv.x, mv.y, mv.cancelable)
    /\ count' = [count EXCEPT !.moves = @ + 1]
    /\ slideIndex' = LastSlideChange(m'.emitted, slideIndex)
    /\ UNCHANGED <<variant, options, dom, finger, limit, interval, env, instance>>

TouchEnd ==
    /\ finger
    /\ \E type \in {t \in {"touchend", "touchcancel"} : Attached(t)}, d \in env.endGaps :
          /\ m' = IF variant = "touch" THEN handleTouchEnd(Arrive(m, d), dom, type)
                  ELSE IF variant = "slider" THEN onTouchEnd_slider(Arrive(m, d), type)
                  ELSE onTouchEnd_part(Arrive(m, d), type)
          /\ op' = Op(type, 0, 0, TRUE)
    /\ finger' = FALSE
    /\ slideIndex' = LastSlideChange(m'.emitted, slideIndex)
    /\ UNCHANGED <<variant, options, dom, count, limit, interval, env, instance>>

Resize ==
    /\ Attached("resize")
    /\ count.resizes < limit.resizes
    /\ \E d \in env.geoms :
          /\ dom' = d
          /\ m' = IF variant = "touch" THEN handleResize(Arrive(m, 0), d)
                  ELSE onResize(Arrive(m, 0), d)
    /\ op' = Op("resize", 0, 0, TRUE)
    /\ count' = [count EXCEPT !.resizes = @ + 1]
    /\ slideIndex' = LastSlideChange(m'.emitted, slideIndex)
    /\ UNCHANGED <<variant, options, finger, limit, interval, env, instance>>

Frame ==
    /\ Len(m.frames) > 0
    /\ m' = Once(Arrive(m, interval), RunFrame)
    /\ op' = Op("frame", 0, 0, TRUE)
    /\ slideIndex' = LastSlideChange(m'.emitted, slideIndex)
    /\ UNCHANGED <<variant, options, dom, finger, count, limit, interval, env, instance>>

Next == TouchStart \/ TouchMove \/ TouchEnd \/ Resize \/ Frame

Spec == Init /\ [][Next]_vars

\* a second touch session: slider.js and part_000, one touchmove in the run
InitRetouch ==
    /\ Page
    /\ Construct({"slider", "part"}, ShortFriction)
    /\ limit = [touches |-> MaxTouches + 1, moves |-> MaxMoves - 1, resizes |-> MaxResizes]
    /\ interval = FrameGap

SpecRetouch == InitRetouch /\ [][Next]_vars

\* a release left to itself: the default friction, a fast or a slow display, no resize
InitInertia ==
    /\ Page
    /\ Construct(Variants, 0)
    /\ limit = [touches |-> MaxTouches, moves |-> MaxMoves - 1, resizes |-> 0]
    /\ interval \in {FrameGap, SlowFrameGap}

NextInertia == TouchStart \/ TouchMove \/ TouchEnd \/ Frame

\* the browser runs every requested frame callback
SpecInertia == InitInertia /\ [][NextInertia]_vars /\ WF_vars(Frame)

\* a container whose wrapper has no slide
EmptyGeom == [containerWidth |-> 100, padding |-> 0, slides |-> <<>>]

\* pages that lack an element or have no slide: the constructor is called on a page with
\* or without the container and the wrapper, with three slides or none, and a resize
\* finds the slides gone
InitPage ==
    /\ dom \in {EmptyGeom, Geoms[1]}
    /\ \E container \in BOOLEAN, wrapper \in BOOLEAN :
          env = Env(Host(container, wrapper), {EmptyGeom}, StartPoint, Moves, EndGaps)
    /\ Construct(Variants, ShortFriction)
    /\ limit = [touches |-> MaxTouches, moves |-> MaxMoves - 1, resizes |-> MaxResizes]
    /\ interval = FrameGap

SpecPage == InitPage /\ [][Next]_vars

\* the finger positions of the runs that follow the velocity history: right and left of
\* the start in steps of 50 ms, a sample 100 ms after the previous one, and a sample in
\* the same millisecond as the previous one
SampleMoves ==
    { Move(10, 300, 50, TRUE), Move(20, 300, 50, TRUE), Move(20, 300, 100, TRUE),
      Move(-20, 300, 50, TRUE), Move(-40, 300, 50, TRUE), Move(-40, 300, 0, TRUE) }

\* a session of up to three samples after the touchstart at x = 0, no resize
InitSamples ==
    /\ dom = Geoms[1]
    /\ env = Env(FullHost, {}, <<0, 300>>, SampleMoves, {0, 50, 100})
    /\ Construct(Variants, ShortFriction)
    /\ limit = [touches |-> MaxTouches, moves |-> MaxMoves + 1, resizes |-> 0]
    /\ interval = FrameGap

SpecSamples == InitSamples /\ [][NextInertia]_vars

\* a resize left to itself: one swipe to the left or to the right, fast or slow, a
\* resize to any geometry at any moment, and every requested frame callback is run
InitResize ==
    /\ dom = Geoms[1]
    /\ env = Env(FullHost, {Geoms[g] : g \in 1..Len(Geoms)}, StartPoint,
                 {mv \in Moves : mv.y = StartPoint[2] /\ mv.cancelable}, {16})
    /\ Construct(Variants, ShortFriction)
    /\ limit = [touches |-> MaxTouches, moves |-> MaxMoves - 1, resizes |-> MaxResizes]
    /\ interval = FrameGap

SpecResize == InitResize /\ [][Next]_vars /\ WF_vars(Frame)

\* the finger positions of the runs that drag across a bound: 11 px to either side of
\* the start, which classifies the session, and 1 px to either side
EdgeMoves ==
    { Move(211, 300, 16, TRUE), Move(201, 300, 16, TRUE),
      Move(189, 300, 16, TRUE), Move(199, 300, 16, TRUE) }

\* a drag that begins while the snap of a resize is under way, so that the track is a
\* fraction of a pixel away from a bound when the finger lands
InitEdge ==
    /\ dom = Geoms[1]
    /\ env = Env(FullHost, {Geoms[g] : g \in 1..Len(Geoms)}, StartPoint, EdgeMoves, {16})
    /\ Construct(Variants, ShortFriction)
    /\ limit = [touches |-> MaxTouches, moves |-> MaxMoves, resizes |-> MaxResizes]
    /\ interval = FrameGap

SpecEdge == InitEdge /\ [][Next]_vars

\* fingers that stay near the start: 9, 10 and 11 px to the right, 5 px down, 4 px up
\* and to the right, so that each dead zone has samples inside it, on its edge and
\* outside; a resize may have started a snap before the finger lands
InitTap ==
    /\ dom = Geoms[1]
    /\ env = Env(FullHost, {Geoms[g] : g \in 1..Len(Geoms)}, StartPoint,
                 { Move(209, 300, 16, TRUE), Move(210, 300, 16, TRUE),
                   Move(211, 300, 16, TRUE), Move(200, 305, 16, TRUE),
                   Move(204, 296, 16, TRUE) }, {16})
    /\ Construct(Variants, ShortFriction)
    /\ limit = [touches |-> MaxTouches, moves |-> MaxMoves, resizes |-> MaxResizes]
    /\ interval = FrameGap

SpecTap == InitTap /\ [][Next]_vars

\* touches on each of the three pages, no resize: on the widest page the slides are
\* narrower than the container
InitRest ==
    /\ dom \in {Geoms[g] : g \in 1..Len(Geoms)}
    /\ env = Env(FullHost, {}, StartPoint, Moves, {16})
    /\ Construct(Variants, ShortFriction)
    /\ limit = [touches |-> MaxTouches, moves |-> MaxMoves, resizes |-> 0]
    /\ interval = FrameGap

SpecRest == InitRest /\ [][NextInertia]_vars

\* the events the page subscribes to: both are dispatched by one frame when a free
\* motion ends, sliderStop follows sliderSnapComplete when a snap ends
Watched == {"sliderMove", "sliderStop"}

\* the functions the page has written for an event
HandlersFor(name) == {Handler(name, does) : does \in {"listen", "once", "mute", "join"}}

\* slider.on(name, handler) called by the page between two events, with a function or
\* with something that is not one
On ==
    /\ variant = "touch" /\ instance.returned
    /\ \E name \in Watched : \E handler \in HandlersFor(name) \cup {NoHandler} :
          /\ Len(m.eventHandlers[name]) < MaxHandlers
          /\ m' = on(Arrive(m, 0), name, handler)
    /\ op' = Op("on", 0, 0, TRUE)
    /\ UNCHANGED <<variant, options, dom, finger, count, limit, interval, slideIndex, env,
                   instance>>

\* slider.off(name, handler) called by the page between two events, with one of its
\* functions or without a handler
Off ==
    /\ variant = "touch" /\ instance.returned
    /\ \E name \in Watched : \E handler \in HandlersFor(name) \cup {NoHandler} :
          m' = off(Arrive(m, 0), name, handler)
    /\ op' = Op("off", 0, 0, TRUE)
    /\ UNCHANGED <<variant, options, dom, finger, count, limit, interval, slideIndex, env,
                   instance>>

\* a page that subscribes and unsubscribes around one swipe of a TouchSlider
InitEvents ==
    /\ dom = Geoms[1]
    /\ env = Env(FullHost, {}, StartPoint,
                 {Move(140, 300, 16, TRUE), Move(200, 360, 16, TRUE)}, {16})
    /\ Construct({"touch"}, ShortFriction)
    /\ limit = [touches |-> MaxTouches, moves |-> MaxMoves - 1, resizes |-> 0]
    /\ interval = FrameGap

NextEvents == TouchStart \/ TouchMove \/ TouchEnd \/ Frame \/ On \/ Off

SpecEvents == InitEvents /\ [][NextEvents]_vars

\* the arguments of the calls of findNearestSlide made from outside animate: positions
\* on a slide, half way between two slides, nearer to one; velocities at rest and above
\* the forced-adjacent threshold of 0.5, to either side
FindPositions == {0, -50000, -130000}

FindVelocities == {0, 600, -600, -2000}

\* slider.findNearestSlide(currentPosition, velocity) called between two events
Find ==
    /\ variant = "touch" /\ instance.returned
    /\ \E currentPosition \in FindPositions, velocity \in FindVelocities :
          LET m1 == Arrive(m, 0)
          IN  m' = [m1 EXCEPT !.found =
                        <<Found(currentPosition, velocity, m1.state.currentSlideIndex,
                                findNearestSlide(m1, dom, currentPosition, velocity))>>]
    /\ op' = Op("findNearestSlide", 0, 0, TRUE)
    /\ UNCHANGED <<variant, options, dom, finger, count, limit, interval, slideIndex, env,
                   instance>>

\* drags that stop half way between two slides or nearer to one, released at once or
\* after a rest, on any of the pages, and calls of findNearestSlide in between
InitNearest ==
    /\ dom = Geoms[1]
    /\ env = Env(FullHost, {Geoms[g] : g \in 1..Len(Geoms)}, StartPoint,
                 {Move(150, 300, 16, TRUE), Move(140, 300, 16, TRUE)}, {16, 120})
    /\ Construct(Variants, ShortFriction)
    /\ limit = [touches |-> MaxTouches, moves |-> MaxMoves, resizes |-> MaxResizes]
    /\ interval = FrameGap

NextNearest == TouchStart \/ TouchMove \/ TouchEnd \/ Resize \/ Frame \/ Find

SpecNearest == InitNearest /\ [][NextNearest]_vars

\* a TouchSlider touched again while the snap of a first swipe is in flight: the second
\* touch is a tap, a vertical scroll or a horizontal drag; snap mode; the browser runs
\* every requested frame callback
InitSnapTouch ==
    /\ dom = Geoms[1]
    /\ env = Env(FullHost, {}, StartPoint,
                 {Move(140, 300, 16, TRUE), Move(200, 360, 16, TRUE)}, {16})
    /\ Construct({"touch"}, ShortFriction)
    /\ ~options.freeMode
    /\ limit = [touches |-> MaxTouches + 1, moves |-> MaxMoves, resizes |-> 0]
    /\ interval = FrameGap

SpecSnapTouch == InitSnapTouch /\ [][NextInertia]_vars /\ WF_vars(Frame)

\* the events whose dispatch is followed by more work of the handler that dispatches
\* them: the start of a drag, a move of the track, the start of a snap
Midway == {"sliderDragStart", "sliderMove", "sliderSnapStart"}

\* the page subscribes a function that destroys the slider when its event comes
OnTeardown ==
    /\ variant = "touch" /\ instance.returned
    /\ \A name \in EventNames : Len(m.eventHandlers[name]) = 0
    /\ \E name \in Midway : m' = on(Arrive(m, 0), name, Handler(name, "destroy"))
    /\ op' = Op("on", 0, 0, TRUE)
    /\ UNCHANGED <<variant, options, dom, finger, count, limit, interval, slideIndex, env,
                   instance>>

\* slider.destroy() called by the page between two events
Destroy ==
    /\ variant = "touch" /\ instance.returned
    /\ m.detached = {}
    /\ m' = destroy(Arrive(m, 0))
    /\ op' = Op("destroy", 0, 0, TRUE)
    /\ UNCHANGED <<variant, options, dom, finger, count, limit, interval, slideIndex, env,
                   instance>>

\* a TouchSlider destroyed at any point of a swipe, a resize and the motion after them,
\* by the page or by a subscribed function
InitDestroy ==
    /\ dom = Geoms[1]
    /\ env = Env(FullHost, {Geoms[2]}, StartPoint,
                 {Move(140, 300, 16, TRUE), Move(200, 360, 16, TRUE)}, {16})
    /\ Construct({"touch"}, ShortFriction)
    /\ limit = [touches |-> MaxTouches, moves |-> MaxMoves, resizes |-> MaxResizes]
    /\ interval = FrameGap

NextDestroy ==
    TouchStart \/ TouchMove \/ TouchEnd \/ Resize \/ Frame \/ OnTeardown \/ Destroy

SpecDestroy == InitDestroy /\ [][NextDestroy]_vars

-----------------------------------------------------------------------------
(* Observations *)

\* the direction flag: "null" unknown, "true" horizontal, "false" vertical
DirectionOf(mm) ==
    IF variant = "touch"
    THEN IF ~mm.touch.isDirectionDetermined THEN "null"
         ELSE IF mm.touch.isHorizontalSwipe THEN "true"
         ELSE "false"
    ELSE mm.state.isHorizontal

\* the track offset
OffsetOf(mm) == IF variant = "touch" THEN mm.state.currentX ELSE mm.state.currentTranslate

\* the leftmost and the rightmost offset the track may rest at
LeftBound(mm) == IF variant = "touch" THEN getBounds(mm).min ELSE mm.maxTranslate

RightBound(mm) == IF variant = "touch" THEN getBounds(mm).max ELSE mm.minTranslate

InBounds(mm) == LeftBound(mm) <= OffsetOf(mm) /\ OffsetOf(mm) <= RightBound(mm)

\* the handler that ran last dispatched the event
Emitted(mm, name) == \E i \in 1..Len(mm.emitted) : mm.emitted[i].name = name

\* the pending frame callbacks the handler that ran last has requested: no time has
\* passed for them
FreshCallbacks(mm, kind) ==
    {i \in 1..Len(mm.frames) :
        /\ mm.frames[i].kind = kind
        /\ IF kind = "step" THEN mm.frames[i].sinceLast = 0
           ELSE IF kind = "loop" THEN mm.frames[i].elapsed = 0
           ELSE TRUE}

\* the inertia phase: a step callback is pending (slider.js, part_000); the animation
\* loop runs and is not snapping (TouchSlider.js)
InInertia(mm) ==
    IF variant = "touch" THEN mm.animation.isAnimating /\ ~mm.state.isSnapping
    ELSE \E i \in 1..Len(mm.frames) : mm.frames[i].kind = "step"

\* the offsets of the snaps the handler that ran last has started
SnapTargets(mm) ==
    IF variant = "touch"
    THEN IF Emitted(mm, "sliderSnapStart") THEN {mm.state.snapTargetX} ELSE {}
    ELSE {mm.frames[i].start + mm.frames[i].distance :
             i \in {j \in FreshCallbacks(mm, "loop") : mm.frames[j].callback >= 0}}

\* the grid entries at the least distance from a position
NearestEntries(grid, position) ==
    {i \in 1..Len(grid) :
        \A j \in 1..Len(grid) : Abs(position - grid[i]) <= Abs(position - grid[j])}

\* every slideChange of a handler's events carries an index other than the one before it
RECURSIVE OnlyChanges(_, _)
OnlyChanges(events, previous) ==
    IF Len(events) = 0 THEN TRUE
    ELSE IF Head(events).name = "slideChange"
    THEN Head(events).index # previous /\ OnlyChanges(Tail(events), Head(events).index)
    ELSE OnlyChanges(Tail(events), previous)

-----------------------------------------------------------------------------
(* Claims *)

\* C1: within a touch session the direction flag, once it is horizontal or vertical, is
\* changed by no later event; only the next touchstart makes it unknown again.
C1_DirectionLockedOnce ==
    [][(DirectionOf(m) # "null" /\ op'.name # "touchstart")
          => DirectionOf(m') = DirectionOf(m)]_vars

\* a session classified horizontal has received a touchmove straight down from the
\* starting point, and is still horizontal
C1_Witness ==
    /\ finger
    /\ op.name = "touchmove" /\ op.x = 200 /\ op.y = 360
    /\ DirectionOf(m) = "true"

\* C2: at every moment at most one frame callback is pending per instance.
C2_OneFramePending == Len(m.frames) <= 1

\* C3: the offset a snap is started toward lies between the leftmost and the rightmost
\* bound, inclusive.
C3_SnapTargetInBounds ==
    \A target \in SnapTargets(m) : LeftBound(m) <= target /\ target <= RightBound(m)

C5_NonCancelableKeepsOffset ==
    [][(finger /\ DirectionOf(m) = "true" /\ op'.name = "touchmove" /\ ~op'.cancelable)
          => OffsetOf(m') = OffsetOf(m)]_vars

\* C6: when the touchstart handler of slider.js or part_000 returns, no frame callback of
\* an earlier animation is pending and the session's start offset is the track offset.
C6_TouchStartCancelsAnimation ==
    (variant # "touch" /\ op.name = "touchstart")
        => (Len(m.frames) = 0 /\ m.state.startTranslate = m.state.currentTranslate)

\* C7: a horizontal drag that ends with touchcancel starts no inertia.
C7_CancelStartsNoInertia ==
    (op.name = "touchcancel" /\ Emitted(m, "sliderDragEnd")) => ~InInertia(m)

\* C8: a slideChange is emitted only with an index that differs from the slide index
\* before it.
C8_SlideChangeOnlyOnChange == [][OnlyChanges(m'.emitted, slideIndex)]_vars

\* C9: in part_000 a release of a horizontal drag out of bounds with a velocity below
\* 0.1 px/ms schedules the 700 ms return to the violated bound, from the current offset,
\* and no inertia step.
C9_SlowReleaseReturnsToBound ==
    (/\ variant = "part"
     /\ op.name = "touchend" /\ Emitted(m, "sliderDragEnd")
     /\ ~InBounds(m)
     /\ Abs(m.state.velocity) < Scale \div 10)
        => /\ \E i \in FreshCallbacks(m, "loop") :
                 /\ m.frames[i].id = m.state.rafId
                 /\ m.frames[i].duration = 700
                 /\ m.frames[i].start = m.state.currentTranslate
                 /\ m.frames[i].start + m.frames[i].distance =
                        (IF m.state.currentTranslate > m.minTranslate THEN m.minTranslate
                         ELSE m.maxTranslate)
           /\ FreshCallbacks(m, "step") = {}

\* such a release with a velocity that is not zero: 0.075 px/ms, 1.5 px past the bound
C9_Witness ==
    /\ variant = "part"
    /\ op.name = "touchend" /\ Emitted(m, "sliderDragEnd")
    /\ m.state.currentTranslate > m.minTranslate
    /\ m.state.velocity > 0 /\ m.state.velocity < Scale \div 10
    /\ FreshCallbacks(m, "loop") # {}

\* C10: in part_000 a release of a horizontal drag in bounds in snap mode schedules the
\* 500 ms snap toward the grid entry nearest to offset + velocity * 200, clamped to the
\* bounds, and no inertia step; in bounds in free mode, or out of bounds with a velocity
\* of at least 0.1 px/ms, it schedules the first inertia step and no timed animation.
C10_ReleaseSnapsToProjection ==
    (variant = "part" /\ op.name = "touchend" /\ Emitted(m, "sliderDragEnd"))
        => LET current == m.state.currentTranslate
               velocity == m.state.velocity
           IN  /\ (~options.freeMode /\ InBounds(m))
                     => /\ \E i \in FreshCallbacks(m, "loop") :
                              /\ m.frames[i].id = m.state.rafId
                              /\ m.frames[i].duration = 500
                              /\ m.frames[i].start = current
                              /\ \E k \in NearestEntries(m.slidesGrid, current + velocity * 200) :
                                    m.frames[i].start + m.frames[i].distance =
                                        Max(m.maxTranslate, Min(m.minTranslate, m.slidesGrid[k]))
                        /\ FreshCallbacks(m, "step") = {}
               /\ ((options.freeMode /\ InBounds(m))
                      \/ (~InBounds(m) /\ Abs(velocity) >= Scale \div 10))
                     => /\ \E i \in FreshCallbacks(m, "step") :
                              /\ m.frames[i].id = m.state.rafId
                              /\ m.frames[i].velocity = velocity
                              /\ m.frames[i].current = current
                        /\ FreshCallbacks(m, "loop") = {}

\* a fling in snap mode: the snap goes to a slide that is not the one nearest to the
\* offset at the release
C10_Witness ==
    /\ variant = "part" /\ ~options.freeMode
    /\ op.name = "touchend" /\ Emitted(m, "sliderDragEnd")
    /\ InBounds(m)
    /\ \E i \in FreshCallbacks(m, "loop") :
          \A k \in NearestEntries(m.slidesGrid, m.state.currentTranslate) :
              m.frames[i].start + m.frames[i].distance # m.slidesGrid[k]

\* C11: when a stop notification has been emitted and no frame callback remains
\* scheduled, the track offset lies within the bounds, inclusive.
C11_RestsInBounds ==
    (Emitted(m, "sliderStop") /\ Len(m.frames) = 0) => InBounds(m)

\* free motion of a spring variant with the track past the rightmost (leftmost) bound
SpringOutRight ==
    variant \in {"slider", "touch"} /\ ~finger /\ InInertia(m) /\ OffsetOf(m) > RightBound(m)

SpringOutLeft ==
    variant \in {"slider", "touch"} /\ ~finger /\ InInertia(m) /\ OffsetOf(m) < LeftBound(m)

\* nothing is scheduled any more
Halted == Len(m.frames) = 0

\* C12: in slider.js and TouchSlider.js, free motion that has the track out of bounds
\* leads, with no further input, to a halt with the offset exactly on the bound that was
\* violated, on a fast and on a slow display.
C12_SpringSettlesOnBound ==
    /\ [](SpringOutRight => <>(Halted /\ OffsetOf(m) = RightBound(m)))
    /\ [](SpringOutLeft => <>(Halted /\ OffsetOf(m) = LeftBound(m)))

\* C13: after construction and after every resize the rightmost bound is not less than
\* the leftmost bound, also when the slides together are narrower than the container.
C13_BoundsOrdered ==
    (op.name \in {"init", "resize"}) => LeftBound(m) <= RightBound(m)

\* the instance has no slide: none captured by init (TouchSlider.js), none found by the
\* last updateDimensions (slider.js, part_000)
NoSlides ==
    /\ env.host = FullHost
    /\ IF variant = "touch" THEN m.slides = 0 ELSE Len(dom.slides) = 0

\* C14: with zero slides neither construction nor a resize nor a release throws, the
\* offset is never NaN, and the track left to itself rests at offset 0.
C14_NoSlidesIsSafe ==
    NoSlides =>
        /\ instance.outcome = "ok" /\ ~m.thrown
        /\ ~IsNaN(OffsetOf(m))
        /\ ((~finger /\ Len(m.frames) = 0) => OffsetOf(m) = 0)

Retained(mm) ==
    IF variant = "touch"
    THEN SelectSeq(mm.touch.history, LAMBDA point : point.age <= velocityWindowTouch)
    ELSE mm.state.positions

\* (last.x - first.x) / (last.time - first.time) in 1/Scale px per ms; the x of
\* slider.js and part_000 are whole px, those of TouchSlider.js are in 1/Scale px
SlopeOf(samples) ==
    LET dx == Last(samples).x - samples[1].x
    IN  Div(IF variant = "touch" THEN dx ELSE dx * Scale, samples[1].age - Last(samples).age)

\* the session had the samples (0, 0), (10, 50), (20, 100) and no other
ExampleSession ==
    /\ variant # "touch" /\ count.moves = 2 /\ Len(m.state.positions) = 2
    /\ m.state.positions[1].x = 10 /\ m.state.positions[2].x = 20
    /\ m.state.positions[1].age - m.state.positions[2].age = 50

\* C16: what calculateVelocity returns is (last.x - first.x) / (last.time - first.time)
\* over the retained samples, and 0 when fewer than two samples are retained or they span
\* no time; for the samples (0, 0), (10, 50), (20, 100) it is 0.2 px/ms.
C16_VelocityIsSlopeOfRetained ==
    m.estimate # <<>> =>
        /\ m.estimate[1] = IF Len(Retained(m)) < 2 THEN 0
                           ELSE IF Retained(m)[1].age = Last(Retained(m)).age THEN 0
                           ELSE SlopeOf(Retained(m))
        /\ (ExampleSession => m.estimate[1] = Scale \div 5)

\* a release of the example session has been given its velocity
C16_Witness == m.estimate # <<>> /\ ExampleSession

\* the velocity history and the window its insertion keeps
SamplesOf(mm) == IF variant = "touch" THEN mm.touch.history ELSE mm.state.positions

WindowOf == IF variant = "touch" THEN historyWindow ELSE velocityWindow

\* the step is the touchmove mv, and it has inserted a sample
Inserts(mv) ==
    /\ finger /\ op'.name = "touchmove" /\ DirectionOf(m') = "true"
    /\ m' = IF variant = "touch"
            THEN handleTouchMove(Arrive(m, mv.gap), mv.x, mv.y, mv.cancelable)
            ELSE IF variant = "slider"
            THEN onTouchMove_slider(Arrive(m, mv.gap), mv.x, mv.y, mv.cancelable)
            ELSE onTouchMove_part(Arrive(m, mv.gap), mv.x, mv.y, mv.cancelable)

\* the history after the insertion: oldest first, nothing older than the window, and
\* every sample held before that is now at most window ms old (d ms have passed)
WindowKept(d) ==
    LET before == SamplesOf(m)
        after == SamplesOf(m')
    IN  /\ \A i \in 1..(Len(after) - 1) : after[i].age >= after[i + 1].age
        /\ \A i \in 1..Len(after) : after[i].age - Last(after).age <= WindowOf
        /\ \A i \in 1..Len(before) :
              before[i].age + d <= WindowOf =>
                  \E j \in 1..Len(after) :
                      after[j].x = before[i].x /\ after[j].age = before[i].age + d

\* C17: every insertion leaves the velocity history ordered by time, without a sample
\* older than the window, and with every earlier sample of the session that is at most
\* window ms old, the one exactly window ms old included.
C17_InsertionKeepsWindow ==
    [][\A mv \in env.moves : Inserts(mv) => WindowKept(mv.gap)]_vars

\* the resting offsets of the slides in the geometry the page has now
GridOf(mm) ==
    IF variant = "touch"
    THEN {getSlidePositions(mm, dom)[i] : i \in 1..mm.slides}
    ELSE {mm.slidesGrid[i] : i \in 1..Len(mm.slidesGrid)}

\* a resize has been handled with no finger down, and the run has no input left
LastResize ==
    /\ op.name = "resize" /\ ~finger
    /\ count.touches = limit.touches /\ count.resizes = limit.resizes

\* C18: after a resize that no input follows, the track comes to rest on a grid entry of
\* the new geometry.
C18_ResizeResnaps == [](LastResize => <>(Halted /\ OffsetOf(m) \in GridOf(m)))

\* one more run of the geometry recomputation on the page as it is
Recompute(mm) ==
    IF variant = "touch" THEN calculateDimensions(mm, dom) ELSE updateDimensions(mm, dom)

\* the slide grid and the bounds the instance works with
GeometryOf(mm) ==
    IF variant = "touch" THEN <<getSlidePositions(mm, dom), getBounds(mm)>>
    ELSE <<mm.slidesGrid, mm.minTranslate, mm.maxTranslate>>

\* C19: recomputing the geometry twice in a row, with the page and the track offset
\* unchanged, gives the same slide grid and the same bounds both times.
C19_RecomputeIdempotent ==
    GeometryOf(Recompute(Recompute(m))) = GeometryOf(Recompute(m))

\* a resize has recomputed the geometry of a padded page while the track was away from
\* offset 0, and one more recomputation changes nothing
C19_Witness ==
    /\ op.name = "resize" /\ dom.padding > 0 /\ OffsetOf(m) # 0
    /\ GeometryOf(Recompute(m)) = GeometryOf(m)

\* part_000 with leading-edge alignment on a page of equal slides as wide as the
\* container, without margins or padding
EqualFill ==
    /\ variant = "part" /\ ~options.centered
    /\ dom.padding = 0 /\ Len(dom.slides) > 0
    /\ \A i \in 1..Len(dom.slides) :
          dom.slides[i].width = dom.containerWidth /\ dom.slides[i].marginRight = 0

\* a release in bounds whose projected position lies beyond the last grid entry
ProjectedBeyondLast ==
    /\ op.name = "touchend" /\ Emitted(m, "sliderDragEnd") /\ InBounds(m)
    /\ m.state.currentTranslate + m.state.velocity * projectionMs < Last(m.slidesGrid)

\* C20: in part_000 with leading-edge alignment, n equal slides as wide as the container
\* give the grid 0, -w, ..., -(n-1)w and the bounds 0 and -(n-1)w; a snap searched from
\* a position beyond the last entry goes to the last index at the bound -(n-1)w, and no
\* snap goes beyond it.
C20_EqualSlidesGridAndLastSnap ==
    EqualFill =>
        LET n == Len(dom.slides)
            w == dom.containerWidth * Scale
        IN  /\ m.slidesGrid = [i \in 1..n |-> -((i - 1) * w)]
            /\ m.minTranslate = 0
            /\ m.maxTranslate = -((n - 1) * w)
            /\ ProjectedBeyondLast =>
                   \E i \in FreshCallbacks(m, "loop") :
                       /\ m.frames[i].callback = n - 1
                       /\ m.frames[i].start + m.frames[i].distance = m.maxTranslate
            /\ \A target \in SnapTargets(m) : target >= m.maxTranslate

\* a fling to the left from the first slide is projected beyond the last slide and is
\* sent to the last slide
C20_Witness ==
    /\ EqualFill /\ ProjectedBeyondLast
    /\ SnapTargets(m) = {m.maxTranslate}
    /\ m.state.currentTranslate > -(dom.containerWidth * Scale)

\* the offset the finger asks for: the offset at the start of the drag plus the travel
\* of the finger
DesiredOffset ==
    IF variant = "touch" THEN m.touch.startPositionX + (op.x - m.touch.startX) * Scale
    ELSE m.state.startTranslate + (op.x - m.state.startTouchX) * Scale

\* the touchmove just handled has moved the track
Dragged ==
    /\ op.name = "touchmove" /\ DirectionOf(m) = "true"
    /\ (variant = "part" => op.cancelable)
    /\ IF variant = "touch" THEN m.state.isDragging ELSE Emitted(m, "sliderMove")

\* C21: during a horizontal drag, with the bounds in order, a desired offset beyond a
\* bound is applied on the same side of that bound and strictly closer to it than
\* desired, whatever the overshoot, below 1 px included.
C21_ResistanceIsSublinear ==
    (Dragged /\ LeftBound(m) <= RightBound(m)) =>
        /\ DesiredOffset > RightBound(m) =>
               (OffsetOf(m) >= RightBound(m) /\ OffsetOf(m) < DesiredOffset)
        /\ DesiredOffset < LeftBound(m) =>
               (OffsetOf(m) <= LeftBound(m) /\ OffsetOf(m) > DesiredOffset)

\* the calls a dispatch makes when it calls the handlers it found, in their order
CallsOf(name, handlers) ==
    [i \in 1..Len(handlers) |-> [name |-> name, handler |-> handlers[i]]]

\* the calls of the dispatches of one event handler, in the order of the dispatches
RECURSIVE ExpectedCalls(_, _)
ExpectedCalls(events, found) ==
    IF Len(events) = 0 THEN <<>>
    ELSE CallsOf(Head(events).name, Head(found)) \o ExpectedCalls(Tail(events), Tail(found))

\* on() puts the handler after those subscribed before it, off() keeps the order of the
\* handlers it leaves
KeepsOrder ==
    /\ op'.name = "on" =>
           \E name \in Watched : \E handler \in HandlersFor(name) \cup {NoHandler} :
               m'.eventHandlers =
                   IF handler = NoHandler THEN m.eventHandlers
                   ELSE [m.eventHandlers EXCEPT ![name] = Append(@, handler)]
    /\ op'.name = "off" =>
           \E name \in Watched : \E handler \in HandlersFor(name) \cup {NoHandler} :
               m'.eventHandlers =
                   [m.eventHandlers EXCEPT ![name] = SelectSeq(@, LAMBDA h : h = NoHandler)]
               \/ m'.eventHandlers =
                   [m.eventHandlers EXCEPT ![name] = SelectSeq(@, LAMBDA h : h # handler)]

\* C22: the array of an event holds its handlers in subscription order, and by the end of
\* the step that dispatches an event the handlers found in the array of that event have
\* been called in that order, once per entry, each a handler written for that event, and
\* no other function has been called.
C22_DispatchInSubscriptionOrder ==
    [][/\ KeepsOrder
       /\ m'.invoked = ExpectedCalls(m'.emitted, m'.subscribed)
       /\ \A i \in 1..Len(m'.invoked) : m'.invoked[i].handler.for = m'.invoked[i].name]_vars

\* a frame has dispatched two events, each to two subscribed handlers
C22_Witness ==
    /\ op.name = "frame" /\ Len(m.invoked) = 4
    /\ m.invoked[1].name # m.invoked[3].name
    /\ m.invoked[1].handler # m.invoked[2].handler

\* the array of an event once each of the handlers called has done what it does
RECURSIVE After(_, _)
After(array, called) ==
    IF Len(called) = 0 THEN array
    ELSE LET handler == Head(called)
         IN  After(IF handler.does = "once" THEN SelectSeq(array, LAMBDA h : h # handler)
                   ELSE IF handler.does = "mute" THEN <<>>
                   ELSE IF handler.does = "join"
                   THEN Append(array, Handler(handler.for, "listen"))
                   ELSE array,
                   Tail(called))

\* one of the handlers calls on() or off() for its event
Resubscribes(handlers) ==
    \E k \in 1..Len(handlers) : handlers[k].does \in {"once", "mute", "join"}

\* C23: a dispatch finds the handlers subscribed at the end of the previous step; when
\* one of them calls on() or off() for the event being dispatched, the handlers called
\* by that dispatch are still exactly those found, each once and in order, and the
\* array the next dispatch finds is the one found plus and minus what the handlers
\* subscribed and unsubscribed, so that an unsubscribed handler is not called again.
C23_DispatchCallsThoseSubscribedAtBegin ==
    [][\A i \in 1..Len(m'.subscribed) :
          LET name == m'.emitted[i].name
              found == m'.subscribed[i]
          IN  /\ found = m.eventHandlers[name]
              /\ Resubscribes(found) =>
                     /\ SelectSeq(m'.invoked, LAMBDA c : c.name = name) = CallsOf(name, found)
                     /\ m'.eventHandlers[name] = After(found, found)]_vars

\* a dispatch found two handlers, the first unsubscribed every handler of the event, and
\* the second was called all the same
C23_Witness ==
    \E i \in 1..Len(m.subscribed) :
        /\ Len(m.subscribed[i]) = 2
        /\ m.subscribed[i][1].does = "mute" /\ m.subscribed[i][2].does = "listen"
        /\ Len(m.eventHandlers[m.emitted[i].name]) = 0
        /\ \E k \in 1..Len(m.invoked) : m.invoked[k].handler = m.subscribed[i][2]

\* destroy() has been called
Destroyed == variant = "touch" /\ m.detached # {}

\* C24: once destroy() has been called on a TouchSlider no frame callback is pending at
\* the end of a step, and no later step changes the track offset or emits a notification.
C24_DestroyStopsEverything ==
    [][/\ Destroyed' => Len(m'.frames) = 0
       /\ Destroyed => (OffsetOf(m') = OffsetOf(m) /\ Len(m'.emitted) = 0)]_vars

\* the ids of the pending frame callbacks, in the order they were requested
FrameIds(mm) == [i \in 1..Len(mm.frames) |-> mm.frames[i].id]

\* the finger is down and its session has been classified vertical
VerticalSession == finger /\ DirectionOf(m) = "false"

\* C25: in a session classified vertical a later touchmove leaves the track offset as it
\* is and does not prevent the native scroll, and the touchend or touchcancel of the
\* session emits nothing, requests and cancels no frame callback and leaves the offset.
C25_VerticalSessionIsLeftAlone ==
    [][VerticalSession =>
          /\ op'.name = "touchmove" =>
                 (OffsetOf(m') = OffsetOf(m) /\ ~m'.prevented /\ Len(m'.emitted) = 0)
          /\ op'.name \in {"touchend", "touchcancel"} =>
                 /\ OffsetOf(m') = OffsetOf(m)
                 /\ Len(m'.emitted) = 0
                 /\ FrameIds(m') = FrameIds(m)]_vars

\* a sample 60 px left of the start, cancelable, has arrived in a session the sample
\* before it had classified vertical
C25_Witness ==
    /\ VerticalSession /\ op.name = "touchmove" /\ count.moves = 2
    /\ op.x = 140 /\ op.y = 300 /\ op.cancelable

\* the engine is dragging
Dragging == instance.outcome = "ok" /\ m.state.isDragging

\* C26: the engine is dragging only in a session classified horizontal; at any time the
\* sliderDragStart notifications are those answered by a sliderDragEnd and at most one
\* more, that of the session in progress, and when no finger is down each has been
\* answered.
C26_DragOnlyHorizontalAndPaired ==
    /\ Dragging => DirectionOf(m) = "true"
    /\ m.tally.starts - m.tally.ends \in {0, 1}
    /\ ~finger => m.tally.starts = m.tally.ends

\* the lowest of a set of indices
Lowest(indices) == CHOOSE i \in indices : \A j \in indices : i <= j

\* no entry of the grid is NaN
Sound(grid) == \A i \in 1..Len(grid) : ~IsNaN(grid[i])

\* the position a snap of slider.js or part_000 was searched from: the offset at the
\* call, and for the release of a drag in part_000 the offset projected by the velocity
SearchedFrom(cb) ==
    IF variant = "part" /\ op.name = "touchend" /\ Emitted(m, "sliderDragEnd")
    THEN cb.start + m.state.velocity * projectionMs
    ELSE cb.start

\* C27: the index a snap of slider.js or part_000 reports, and the index
\* findNearestSlide returns for a velocity of at most 0.5, is the lowest index among the
\* grid entries closest to the search position: the offset projected by the velocity
\* where a projection is supplied (the release of a drag in part_000,
\* currentPosition + 120 * velocity in findNearestSlide), the offset at the call otherwise.
C27_NearestIsClosestLowestIndex ==
    /\ variant \in {"slider", "part"} =>
           \A i \in FreshCallbacks(m, "loop") :
               (/\ m.frames[i].callback >= 0
                /\ Len(m.slidesGrid) > 0 /\ Sound(m.slidesGrid)
                /\ ~IsNaN(m.frames[i].start))
                   => m.frames[i].callback + 1 =
                          Lowest(NearestEntries(m.slidesGrid, SearchedFrom(m.frames[i])))
    /\ variant = "touch" =>
           \A k \in 1..Len(m.found) :
               LET c == m.found[k]
                   positions == getSlidePositions(m, dom)
               IN  (Abs(c.velocity) <= forcedThreshold /\ Len(positions) > 0)
                       => c.result.index + 1 =
                              Lowest(NearestEntries(positions,
                                                    c.currentPosition + 120 * c.velocity))

\* a drag of part_000 was cancelled half way between the first two slides, and the snap
\* goes to the first
C27_Witness ==
    /\ variant = "part" /\ op.name = "touchcancel"
    /\ \E i \in FreshCallbacks(m, "loop") :
          /\ m.frames[i].callback = 0
          /\ {1, 2} \subseteq NearestEntries(m.slidesGrid, m.frames[i].start)

SnapInFlight == variant = "touch" /\ m.state.isSnapping /\ Len(m.frames) > 0

\* the snap has reached its target and said so
SnapCompleted ==
    /\ variant = "touch" /\ Emitted(m, "sliderSnapComplete")
    /\ m.state.currentX = m.state.snapTargetX

\* a touch event that leaves the session unclassified or vertical leaves the snap in
\* flight as it is: same target, same pending callback
TouchLeavesSnap ==
    (/\ SnapInFlight
     /\ op'.name \in {"touchstart", "touchmove", "touchend", "touchcancel"}
     /\ DirectionOf(m') # "true")
        => /\ m'.state.isSnapping
           /\ m'.state.snapTargetX = m.state.snapTargetX
           /\ m'.animation.isAnimating
           /\ FrameIds(m') = FrameIds(m)
           /\ ~Emitted(m', "manualStop")

\* C29: in TouchSlider.js a touchstart, a touchmove that leaves the session unclassified
\* or classifies it vertical, and the touchend or touchcancel of such a session leave a
\* snap in flight untouched; a snap in flight while such a touch is down goes on to
\* reach its target and dispatch sliderSnapComplete unless the session is classified
\* horizontal, and a horizontal classification cancels it.
C29_SnapSurvivesNonHorizontalTouch ==
    /\ [][TouchLeavesSnap]_vars
    /\ [][(SnapInFlight /\ op'.name = "touchmove" /\ DirectionOf(m) # "true"
             /\ DirectionOf(m') = "true")
              => (~m'.state.isSnapping /\ Len(m'.frames) = 0)]_vars
    /\ (SnapInFlight /\ finger /\ DirectionOf(m) # "true")
           ~> (SnapCompleted \/ (finger /\ DirectionOf(m) = "true"))

\* the snap has completed while the finger of a session classified vertical is down
C29_Witness == SnapCompleted /\ finger /\ DirectionOf(m) = "false"

\* a touch session of slider.js or part_000 is active with isDragging set
DragActive == variant \in {"slider", "part"} /\ finger /\ Dragging

\* C30: while a touch session of slider.js or part_000 is active with isDragging set, a
\* frame in which pending callbacks fire leaves the track offset as it is, requests no
\* frame callback, keeps rafId and emits nothing; and as long as the drag lasts the
\* offset changes in no step other than a touchmove.
C30_FramesIdleDuringDrag ==
    [][DragActive =>
          /\ op'.name = "frame" =>
                 /\ OffsetOf(m') = OffsetOf(m)
                 /\ Len(m'.frames) = 0
                 /\ m'.state.rafId = m.state.rafId
                 /\ Len(m'.emitted) = 0
          /\ (m'.state.isDragging /\ OffsetOf(m') # OffsetOf(m)) => op'.name = "touchmove"]_vars

\* a frame has fired during a drag, after a resize during that drag had scheduled the
\* loop of a snap
C30_Witness ==
    /\ DragActive /\ op.name = "frame" /\ count.resizes = 1
    /\ DirectionOf(m) = "true" /\ m.state.rafId # 0

\* a finger position is inside the dead zone around the start of the session: both
\* displacements below 10 px (slider.js), below 5 px (part_000), at most 10 px
\* (TouchSlider.js)
InDeadZone(x, y) ==
    LET dx == Abs(x - env.start[1])
        dy == Abs(y - env.start[2])
    IN  IF variant = "slider" THEN dx < 10 /\ dy < 10
        ELSE IF variant = "part" THEN dx < 5 /\ dy < 5
        ELSE dx <= 10 /\ dy <= 10

\* C31: while the direction of a session is unknown, a touchmove whose sample is inside
\* the dead zone leaves it unknown, leaves the track offset, prevents no native scroll
\* and emits nothing; the touchend or touchcancel of a session whose direction is still
\* unknown emits nothing, leaves the offset and requests no frame callback.
C31_DeadZoneKeepsDirectionUnknown ==
    [][(finger /\ instance.outcome = "ok" /\ DirectionOf(m) = "null") =>
          /\ (op'.name = "touchmove" /\ InDeadZone(op'.x, op'.y)) =>
                 /\ DirectionOf(m') = "null"
                 /\ OffsetOf(m') = OffsetOf(m)
                 /\ ~m'.prevented
                 /\ Len(m'.emitted) = 0
          /\ op'.name \in {"touchend", "touchcancel"} =>
                 /\ Len(m'.emitted) = 0
                 /\ OffsetOf(m') = OffsetOf(m)
                 /\ FrameIds(m') = FrameIds(m)]_vars

\* a tap: two samples inside the dead zone, the last 4 px from the start, then the
\* finger is lifted with the direction still unknown
C31_Witness ==
    /\ ~finger /\ op.name = "touchend" /\ count.moves = 2
    /\ DirectionOf(m) = "null" /\ instance.outcome = "ok"

\* the timed animation whose loop is the only callback pending, not interrupted by a
\* touch: isDragging is clear
LoopAlone ==
    /\ instance.outcome = "ok" /\ variant \in {"slider", "part"}
    /\ Len(m.frames) = 1 /\ m.frames[1].kind = "loop"
    /\ ~m.state.isDragging

\* the names a handler emitted, in order
NamesOf(mm) == [i \in 1..Len(mm.emitted) |-> mm.emitted[i].name]

\* C32: a frame of an uninterrupted timed animation that comes before the duration has
\* elapsed emits nothing and requests the next frame; the first frame at or after the
\* duration writes the target (start + distance) as the offset, emits sliderStop once,
\* then runs the completion callback (slideChange) if there is one, and requests no frame.
C32_TimedAnimationEndsOnTarget ==
    [][(LoopAlone /\ op'.name = "frame") =>
          LET cb == m.frames[1]
              elapsed == cb.elapsed + interval
          IN  IF elapsed >= cb.duration
              THEN /\ OffsetOf(m') = Add(cb.start, cb.distance)
                   /\ NamesOf(m') = IF cb.callback >= 0
                                     THEN <<"sliderStop", "slideChange">>
                                     ELSE <<"sliderStop">>
                   /\ Len(m'.frames) = 0
              ELSE /\ Len(m'.emitted) = 0
                   /\ Len(m'.frames) = 1
                   /\ m'.frames[1].kind = "loop"
                   /\ m'.frames[1].elapsed = elapsed
                   /\ Add(m'.frames[1].start, m'.frames[1].distance)
                        = Add(cb.start, cb.distance)]_vars

\* a snap has run to its end: the frame emitted sliderStop and then slideChange, the
\* offset moved during the animation and rests on a grid entry
C32_Witness ==
    /\ instance.outcome = "ok" /\ variant \in {"slider", "part"}
    /\ op.name = "frame" /\ NamesOf(m) = <<"sliderStop", "slideChange">>
    /\ Len(m.frames) = 0 /\ OffsetOf(m) # 0
    /\ \E i \in 1..Len(m.slidesGrid) : m.slidesGrid[i] = OffsetOf(m)

\* C33: in slider.js and part_000 the bounds are those of the grid the instance holds:
\* with an empty grid both bounds are 0, and in centered mode minTranslate is the first
\* grid entry and maxTranslate the last.
C33_BoundsFollowGrid ==
    (instance.outcome = "ok" /\ variant \in {"slider", "part"}) =>
        LET grid == m.slidesGrid
        IN  IF Len(grid) = 0
            THEN m.minTranslate = 0 /\ m.maxTranslate = 0
            ELSE options.centered =>
                    /\ m.minTranslate = grid[1]
                    /\ m.maxTranslate = grid[Len(grid)]

\* the two visibility predicates of the last slide on the offset and the page as they are
VisibleNow(mm) ==
    LET lastSlideOffset == OffsetLeft(dom, mm.slides)
        lastSlideRight == lastSlideOffset + OffsetWidth(dom, mm.slides)
        viewportRight == -mm.state.currentX + mm.state.sliderWidth
        viewportLeft == -mm.state.currentX
    IN  [start |-> lastSlideOffset < viewportRight,
         full |-> lastSlideOffset >= viewportLeft /\ lastSlideRight <= viewportRight]

\* C34: in TouchSlider.js, once a handler has written the track position, the stored
\* flags lastSlideVisibleStart and lastSlideVisibleFull equal the visibility predicates
\* of the last slide on the current offset and geometry.
C34_VisibilityFlagsAreCurrent ==
    (instance.outcome = "ok" /\ variant = "touch" /\ m.slides > 0
        /\ op.name \in {"touchmove", "frame", "resize"}) =>
        /\ m.state.lastSlideVisibleStart = VisibleNow(m).start
        /\ m.state.lastSlideVisibleFull = VisibleNow(m).full

\* the offsets a snap may rest at: the grid entries clamped to the bounds
RestingOffsets(mm) ==
    {Min(Max(g, LeftBound(mm)), RightBound(mm)) : g \in GridOf(mm)}

\* C35: in snap mode, with touches as the only input, whenever no finger is down and no
\* frame callback is pending the track offset is a grid entry clamped to the bounds.
C35_RestsOnGridEntry ==
    (instance.outcome = "ok" /\ ~options.freeMode /\ count.resizes = 0
        /\ ~finger /\ Halted) =>
        OffsetOf(m) \in RestingOffsets(m)

\* C36: in slider.js and part_000 a touchstart emits sliderTouchStop only if a frame
\* callback of an inertia or a timed animation was pending when the finger landed.
C36_TouchStopOnlyWhenMoving ==
    [][(instance.outcome = "ok" /\ variant \in {"slider", "part"}
          /\ op'.name = "touchstart" /\ Emitted(m', "sliderTouchStop"))
        => Len(m.frames) > 0]_vars

\* the step is the touchend that comes d ms after the last event of the session
Lifts(d) ==
    /\ finger /\ instance.outcome = "ok" /\ op'.name = "touchend"
    /\ m' = IF variant = "touch" THEN handleTouchEnd(Arrive(m, d), dom, "touchend")
            ELSE IF variant = "slider" THEN onTouchEnd_slider(Arrive(m, d), "touchend")
            ELSE onTouchEnd_part(Arrive(m, d), "touchend")

\* C37: a touchend that comes more than the velocity window (100 ms) after the last
\* touchmove gets 0 from calculateVelocity, and state.velocity of slider.js and
\* part_000 is 0 after it.
C37_RestedFingerReleasesAtZero ==
    [][\A d \in env.endGaps :
          (d > velocityWindow /\ Lifts(d)) =>
              /\ \A i \in 1..Len(m'.estimate) : m'.estimate[i] = 0
              /\ variant # "touch" => m'.state.velocity = 0]_vars

\* the slide grid as a sequence, index 1 for slide 0
GridSeq(mm) == IF variant = "touch" THEN getSlidePositions(mm, dom) ELSE mm.slidesGrid

\* the frame that ends a snap and the slide index (from 0) the snap reported: the index
\* of slideChange in slider.js and part_000, currentSlideIndex at sliderSnapComplete in
\* TouchSlider.js; <<>> when the frame ends no snap
SnapEnded(before, after) ==
    IF variant = "touch"
    THEN IF Emitted(after, "sliderSnapComplete") THEN <<after.state.currentSlideIndex>>
         ELSE <<>>
    ELSE IF Len(before.frames) = 1 /\ Emitted(after, "sliderStop")
            /\ Emitted(after, "slideChange")
         THEN <<Last(after.emitted).index>>
         ELSE <<>>

\* C38: when a snap ends with the track resting on the offset of a grid entry, the slide
\* index the snap reported is the index of a grid entry with that offset.
C38_IndexMatchesRestingOffset ==
    [][(instance.outcome = "ok" /\ op'.name = "frame" /\ SnapEnded(m, m') # <<>>
          /\ OffsetOf(m') \in GridOf(m')) =>
          LET index == SnapEnded(m, m')[1]
          IN  GridAt(GridSeq(m'), index + 1) = OffsetOf(m')]_vars

\* C39: in TouchSlider.js with the default options every call of findNearestSlide by the
\* animation loop has a velocity below 0.3 px per frame in magnitude, and it returns the
\* lowest index among the slides closest to the projected position.
C39_LoopSnapsToNearest ==
    (instance.outcome = "ok" /\ variant = "touch") =>
        \A k \in 1..Len(m.found) :
            LET c == m.found[k]
                positions == getSlidePositions(m, dom)
            IN  /\ Abs(c.velocity) < 3 * (Scale \div 10)
                /\ Len(positions) > 0 =>
                       c.result.index + 1 =
                           Lowest(NearestEntries(positions,
                                                 c.currentPosition + 120 * c.velocity))

\* the loop has started a snap while the track was still moving, to another slide than
\* the current one
C39_Witness ==
    /\ variant = "touch" /\ op.name = "frame"
    /\ \E k \in 1..Len(m.found) :
          /\ Abs(m.found[k].velocity) >= Scale \div 10
          /\ m.found[k].result.index # m.found[k].currentSlideIndex

\* TouchSlider.js is in post-release inertia: the animation loop is pending in its free
\* branch, no drag, no snap
PostReleaseInertia ==
    /\ instance.outcome = "ok" /\ variant = "touch"
    /\ m.animation.isAnimating /\ ~m.state.isSnapping /\ ~m.state.isDragging
    /\ Len(m.frames) > 0

\* C40: in TouchSlider.js a touchstart that lands during post-release inertia, the
\* direction of the new touch not yet classified, leaves the inertia velocity, the track
\* offset, the snap state and the pending frame as they were.
C40_TouchLeavesInertia ==
    [][(PostReleaseInertia /\ op'.name = "touchstart") =>
          /\ m'.touch.velocityX = m.touch.velocityX
          /\ m'.state.currentX = m.state.currentX
          /\ m'.state.isSnapping = m.state.isSnapping
          /\ m'.animation = m.animation
          /\ FrameIds(m') = FrameIds(m)]_vars
====
